---- MODULE Spec2Model ----
(***************************************************************************)
(* ChessGame (the chess rules engine of the opening driller): board state, *)
(* pseudo-legal move generation, move execution and the SAN codec.         *)
(*                                                                         *)
(* Strings are modelled as sequences of one-character strings, so that     *)
(* indexing (from[0]), slicing and concatenation are what the code does:   *)
(* the square "e4" is <<"e","4">>, the piece "wN" is <<"w","N">>, the      *)
(* notation "Nbc3" is <<"N","b","c","3">>.  JavaScript's null / undefined  *)
(* / "" (all falsy) are the empty sequence.  JavaScript indexes from 0,    *)
(* the model from 1: s[0] is written s[1].                                 *)
(***************************************************************************)
EXTENDS Integers, Sequences, FiniteSets, TLC

\* ------------------------------------------------------------------ text

Null == <<>>

FileChars == <<"a", "b", "c", "d", "e", "f", "g", "h">>

DigitChars == <<"0", "1", "2", "3", "4", "5", "6", "7", "8", "9">>

FileSet == {FileChars[i] : i \in 1..8}

RankSet == {DigitChars[i] : i \in 2..9}

PieceLetters == {"K", "Q", "R", "B", "N"}

Glyphs == {"+", "#", "!", "?"}

\* Every well-formed square identifier a1..h8.
Squares == {<<f, r>> : f \in FileSet, r \in RankSet}

\* "abcdefgh".indexOf(file): 0-based, -1 when absent.
IndexOf(chars, c) ==
    IF \E i \in 1..Len(chars) : chars[i] = c
    THEN (CHOOSE i \in 1..Len(chars) : chars[i] = c) - 1
    ELSE -1

\* Number.parseInt(rank) for a one-digit string.
ParseInt(c) == IndexOf(DigitChars, c)

\* `${n}` for the one-digit numbers the move generators produce (0..9).
NumStr(n) == DigitChars[n + 1]

\* `${"abcdefgh"[fileIndex]}${rankIndex + 1}`
SquareAt(fileIndex, rankIndex) == <<FileChars[fileIndex + 1], NumStr(rankIndex + 1)>>

\* /^[a-h][1-8]$/.test(square)
isValidSquare(square) ==
    /\ Len(square) = 2
    /\ square[1] \in FileSet
    /\ square[2] \in RankSet

\* moves.includes(x)
Includes(seq, x) == \E i \in 1..Len(seq) : seq[i] = x

\* ------------------------------------------------------- ChessPosition
\* The position object: a JavaScript object used as a sparse map.  `keys`
\* is the object's own property order (insertion order, which for..in
\* follows), `map` the value of each property (Null when absent).

EmptyPosition == [keys |-> <<>>, map |-> [s \in Squares |-> Null]]

\* this.position[square] = piece
PosSet(position, square, piece) ==
    [keys |-> IF Includes(position.keys, square) THEN position.keys
              ELSE Append(position.keys, square),
     map |-> [position.map EXCEPT ![square] = piece]]

\* delete this.position[square]
PosDelete(position, square) ==
    LET keep(k) == k # square
    IN [keys |-> SelectSeq(position.keys, keep),
        map |-> [position.map EXCEPT ![square] = Null]]

InitialEntries ==
    <<
       <<(<<"a", "8">>), (<<"b", "R">>)>>, <<(<<"b", "8">>), (<<"b", "N">>)>>,
        <<(<<"c", "8">>), (<<"b", "B">>)>>, <<(<<"d", "8">>), (<<"b", "Q">>)>>,
        <<(<<"e", "8">>), (<<"b", "K">>)>>, <<(<<"f", "8">>), (<<"b", "B">>)>>,
        <<(<<"g", "8">>), (<<"b", "N">>)>>, <<(<<"h", "8">>), (<<"b", "R">>)>>,
        <<(<<"a", "7">>), (<<"b", "P">>)>>, <<(<<"b", "7">>), (<<"b", "P">>)>>,
        <<(<<"c", "7">>), (<<"b", "P">>)>>, <<(<<"d", "7">>), (<<"b", "P">>)>>,
        <<(<<"e", "7">>), (<<"b", "P">>)>>, <<(<<"f", "7">>), (<<"b", "P">>)>>,
        <<(<<"g", "7">>), (<<"b", "P">>)>>, <<(<<"h", "7">>), (<<"b", "P">>)>>,
        <<(<<"a", "2">>), (<<"w", "P">>)>>, <<(<<"b", "2">>), (<<"w", "P">>)>>,
        <<(<<"c", "2">>), (<<"w", "P">>)>>, <<(<<"d", "2">>), (<<"w", "P">>)>>,
        <<(<<"e", "2">>), (<<"w", "P">>)>>, <<(<<"f", "2">>), (<<"w", "P">>)>>,
        <<(<<"g", "2">>), (<<"w", "P">>)>>, <<(<<"h", "2">>), (<<"w", "P">>)>>,
        <<(<<"a", "1">>), (<<"w", "R">>)>>, <<(<<"b", "1">>), (<<"w", "N">>)>>,
        <<(<<"c", "1">>), (<<"w", "B">>)>>, <<(<<"d", "1">>), (<<"w", "Q">>)>>,
        <<(<<"e", "1">>), (<<"w", "K">>)>>, <<(<<"f", "1">>), (<<"w", "B">>)>>,
        <<(<<"g", "1">>), (<<"w", "N">>)>>, <<(<<"h", "1">>), (<<"w", "R">>)>> >>

\* The object literal: its properties in the order written.
getInitialPosition ==
    [keys |-> [i \in 1..Len(InitialEntries) |-> InitialEntries[i][1]],
     map |-> [s \in Squares |->
                IF \E i \in 1..Len(InitialEntries) : InitialEntries[i][1] = s
                THEN InitialEntries[CHOOSE i \in 1..Len(InitialEntries) :
                                        InitialEntries[i][1] = s][2]
                ELSE Null]]

\* new ChessGame(), as a value: [position, currentPlayer, moveHistory].
NewGame == [position |-> getInitialPosition, currentPlayer |-> "w", moveHistory |-> <<>>]

\* ------------------------------------------------------ move generator

getPiece(game, square) ==
    IF square \in Squares THEN game.position.map[square] ELSE Null

\* canMoveTo without the own-colour test on the destination.
canMoveToOccupied(game, from, to) == getPiece(game, from) # Null

canMoveTo(game, from, to) ==
    LET fromPiece == getPiece(game, from)
        toPiece == getPiece(game, to)
    IN IF fromPiece = Null THEN FALSE
       ELSE IF toPiece # Null /\ toPiece[1] = fromPiece[1] THEN FALSE
       ELSE TRUE

OnBoard(fileIndex, rankIndex) ==
    fileIndex >= 0 /\ fileIndex < 8 /\ rankIndex >= 0 /\ rankIndex < 8

RECURSIVE LinearWalk(_, _, _, _, _, _)
LinearWalk(game, square, newFileIndex, newRankIndex, dx, dy) ==
    IF ~OnBoard(newFileIndex, newRankIndex) THEN <<>>
    ELSE LET newSquare == SquareAt(newFileIndex, newRankIndex)
             piece == getPiece(game, newSquare)
         IN IF piece = Null
            THEN <<newSquare>> \o LinearWalk(game, square, newFileIndex + dx,
                                             newRankIndex + dy, dx, dy)
            ELSE IF piece[1] # getPiece(game, square)[1] THEN <<newSquare>>
            ELSE <<>>

\* The walk of getLinearMoves without the break after an enemy piece (line
\* 497): the ray goes on behind a capture.
RECURSIVE LinearWalkThrough(_, _, _, _, _, _)
LinearWalkThrough(game, square, newFileIndex, newRankIndex, dx, dy) ==
    IF ~OnBoard(newFileIndex, newRankIndex) THEN <<>>
    ELSE LET newSquare == SquareAt(newFileIndex, newRankIndex)
             piece == getPiece(game, newSquare)
         IN IF piece = Null \/ piece[1] # getPiece(game, square)[1]
            THEN <<newSquare>> \o LinearWalkThrough(game, square, newFileIndex + dx,
                                                    newRankIndex + dy, dx, dy)
            ELSE <<>>

getLinearMovesThrough(game, square, dx, dy) ==
    LET fileIndex == IndexOf(FileChars, square[1])
        rankIndex == ParseInt(square[2]) - 1
    IN LinearWalkThrough(game, square, fileIndex + dx, rankIndex + dy, dx, dy)

getLinearMoves(game, square, dx, dy) ==
    LET fileIndex == IndexOf(FileChars, square[1])
        rankIndex == ParseInt(square[2]) - 1
    IN LinearWalk(game, square, fileIndex + dx, rankIndex + dy, dx, dy)

getRookMoves(game, square) ==
    getLinearMoves(game, square, 0, 1) \o getLinearMoves(game, square, 0, -1)
        \o getLinearMoves(game, square, 1, 0) \o getLinearMoves(game, square, -1, 0)

getBishopMoves(game, square) ==
    getLinearMoves(game, square, 1, 1) \o getLinearMoves(game, square, 1, -1)
        \o getLinearMoves(game, square, -1, 1) \o getLinearMoves(game, square, -1, -1)

getQueenMoves(game, square) == getRookMoves(game, square) \o getBishopMoves(game, square)

\* The offsets a loop walks, kept on the board, in the loop's order.
RECURSIVE OffsetMoves(_, _, _)
OffsetMoves(fileIndex, rankIndex, offsets) ==
    IF offsets = <<>> THEN <<>>
    ELSE LET newFileIndex == fileIndex + Head(offsets)[1]
             newRankIndex == rankIndex + Head(offsets)[2]
         IN (IF OnBoard(newFileIndex, newRankIndex)
             THEN <<SquareAt(newFileIndex, newRankIndex)>> ELSE <<>>)
            \o OffsetMoves(fileIndex, rankIndex, Tail(offsets))

knightMoves ==
    << <<-2, -1>>, <<-2, 1>>, <<-1, -2>>, <<-1, 2>>,
       <<1, -2>>, <<1, 2>>, <<2, -1>>, <<2, 1>> >>

getKnightMoves(square) ==
    OffsetMoves(IndexOf(FileChars, square[1]), ParseInt(square[2]) - 1, knightMoves)

\* for dx in -1..1, for dy in -1..1, skipping (0,0)
kingSteps ==
    << <<-1, -1>>, <<-1, 0>>, <<-1, 1>>, <<0, -1>>,
       <<0, 1>>, <<1, -1>>, <<1, 0>>, <<1, 1>> >>

getKingMoves(square) ==
    OffsetMoves(IndexOf(FileChars, square[1]), ParseInt(square[2]) - 1, kingSteps)

\* getPawnMoves without the two-square advance (lines 367-372 dropped).
getPawnMovesSingleStep(game, square, color) ==
    LET file == square[1]
        fileIndex == IndexOf(FileChars, file)
        rankIndex == ParseInt(square[2]) - 1
        direction == IF color = "w" THEN 1 ELSE -1
        oneForward == <<file, NumStr(rankIndex + 1 + direction)>>
        forward ==
            IF isValidSquare(oneForward) /\ getPiece(game, oneForward) = Null
            THEN <<oneForward>> ELSE <<>>
        capture(fileOffset) ==
            LET newFileIndex == fileIndex + fileOffset
            IN IF newFileIndex >= 0 /\ newFileIndex < 8
               THEN LET captureSquare == <<FileChars[newFileIndex + 1],
                                           NumStr(rankIndex + 1 + direction)>>
                        targetPiece == getPiece(game, captureSquare)
                    IN IF isValidSquare(captureSquare) /\ targetPiece # Null
                          /\ targetPiece[1] # color
                       THEN <<captureSquare>> ELSE <<>>
               ELSE <<>>
    IN forward \o capture(-1) \o capture(1)

\* getPawnMoves with the diagonal step offered onto an empty square as well
\* (the targetPiece test of line 381 reduced to the colour test).
getPawnMovesOntoEmpty(game, square, color) ==
    LET file == square[1]
        fileIndex == IndexOf(FileChars, file)
        rankIndex == ParseInt(square[2]) - 1
        direction == IF color = "w" THEN 1 ELSE -1
        startRank == IF color = "w" THEN 1 ELSE 6
        oneForward == <<file, NumStr(rankIndex + 1 + direction)>>
        twoForward == <<file, NumStr(rankIndex + 1 + direction * 2)>>
        forward ==
            IF isValidSquare(oneForward) /\ getPiece(game, oneForward) = Null
            THEN <<oneForward>> \o
                 (IF rankIndex = startRank /\ isValidSquare(twoForward)
                     /\ getPiece(game, twoForward) = Null
                  THEN <<twoForward>> ELSE <<>>)
            ELSE <<>>
        capture(fileOffset) ==
            LET newFileIndex == fileIndex + fileOffset
            IN IF newFileIndex >= 0 /\ newFileIndex < 8
               THEN LET captureSquare == <<FileChars[newFileIndex + 1],
                                           NumStr(rankIndex + 1 + direction)>>
                        targetPiece == getPiece(game, captureSquare)
                    IN IF isValidSquare(captureSquare)
                          /\ (targetPiece = Null \/ targetPiece[1] # color)
                       THEN <<captureSquare>> ELSE <<>>
               ELSE <<>>
    IN forward \o capture(-1) \o capture(1)

getPawnMoves(game, square, color) ==
    LET file == square[1]
        fileIndex == IndexOf(FileChars, file)
        rankIndex == ParseInt(square[2]) - 1
        direction == IF color = "w" THEN 1 ELSE -1
        startRank == IF color = "w" THEN 1 ELSE 6
        oneForward == <<file, NumStr(rankIndex + 1 + direction)>>
        twoForward == <<file, NumStr(rankIndex + 1 + direction * 2)>>
        forward ==
            IF isValidSquare(oneForward) /\ getPiece(game, oneForward) = Null
            THEN <<oneForward>> \o
                 (IF rankIndex = startRank /\ isValidSquare(twoForward)
                     /\ getPiece(game, twoForward) = Null
                  THEN <<twoForward>> ELSE <<>>)
            ELSE <<>>
        capture(fileOffset) ==
            LET newFileIndex == fileIndex + fileOffset
            IN IF newFileIndex >= 0 /\ newFileIndex < 8
               THEN LET captureSquare == <<FileChars[newFileIndex + 1],
                                           NumStr(rankIndex + 1 + direction)>>
                        targetPiece == getPiece(game, captureSquare)
                    IN IF isValidSquare(captureSquare) /\ targetPiece # Null
                          /\ targetPiece[1] # color
                       THEN <<captureSquare>> ELSE <<>>
               ELSE <<>>
    IN forward \o capture(-1) \o capture(1)

\* getValidMoves without the pieceColor !== this.currentPlayer return.
getValidMovesAnyColor(game, square) ==
    LET piece == getPiece(game, square)
    IN IF piece = Null THEN <<>>
       ELSE LET type == piece[2]
                moves == CASE type = "P" -> getPawnMoves(game, square, piece[1])
                           [] type = "R" -> getRookMoves(game, square)
                           [] type = "N" -> getKnightMoves(square)
                           [] type = "B" -> getBishopMoves(game, square)
                           [] type = "Q" -> getQueenMoves(game, square)
                           [] type = "K" -> getKingMoves(square)
                           [] OTHER -> <<>>
                ok(move) == isValidSquare(move) /\ canMoveTo(game, square, move)
            IN SelectSeq(moves, ok)

getValidMoves(game, square) ==
    LET piece == getPiece(game, square)
    IN IF piece = Null THEN <<>>
       ELSE IF piece[1] # game.currentPlayer THEN <<>>
       ELSE LET type == piece[2]
                moves == CASE type = "P" -> getPawnMoves(game, square, piece[1])
                           [] type = "R" -> getRookMoves(game, square)
                           [] type = "N" -> getKnightMoves(square)
                           [] type = "B" -> getBishopMoves(game, square)
                           [] type = "Q" -> getQueenMoves(game, square)
                           [] type = "K" -> getKingMoves(square)
                           [] OTHER -> <<>>
                ok(move) == isValidSquare(move) /\ canMoveTo(game, square, move)
            IN SelectSeq(moves, ok)

\* -------------------------------------------------- ambiguity resolver

\* findAmbiguousMoves without the square !== from test.
findAmbiguousMovesSelf(game, from, to, piece) ==
    IF piece = Null THEN <<>>
    ELSE LET other(square) ==
                 /\ game.position.map[square] = piece
                 /\ Includes(getValidMoves(game, square), to)
         IN SelectSeq(game.position.keys, other)

findAmbiguousMoves(game, from, to, piece) ==
    IF piece = Null THEN <<>>
    ELSE LET other(square) ==
                 LET otherPiece == game.position.map[square]
                 IN /\ otherPiece # Null
                    /\ otherPiece[1] = piece[1]
                    /\ otherPiece[2] = piece[2]
                    /\ square # from
                    /\ Includes(getValidMoves(game, square), to)
         IN SelectSeq(game.position.keys, other)

\* ------------------------------------------- notation codec: generation

\* No disambiguator at all.
DisambiguatorNone(from, ambiguousMoves) == <<>>

\* The rank tried before the file.
DisambiguatorRankFirst(from, ambiguousMoves) ==
    IF Len(ambiguousMoves) > 0
    THEN IF ~\E i \in 1..Len(ambiguousMoves) : ambiguousMoves[i][2] = from[2]
         THEN <<from[2]>>
         ELSE IF ~\E i \in 1..Len(ambiguousMoves) : ambiguousMoves[i][1] = from[1]
         THEN <<from[1]>>
         ELSE from
    ELSE <<>>

\* The full origin square whenever another piece reaches `to`.
DisambiguatorFullSquare(from, ambiguousMoves) ==
    IF Len(ambiguousMoves) > 0 THEN from ELSE <<>>

\* The disambiguator of a piece move, given the other pieces that reach `to`.
Disambiguator(from, ambiguousMoves) ==
    IF Len(ambiguousMoves) > 0
    THEN IF ~\E i \in 1..Len(ambiguousMoves) : ambiguousMoves[i][1] = from[1]
         THEN <<from[1]>>
         ELSE IF ~\E i \in 1..Len(ambiguousMoves) : ambiguousMoves[i][2] = from[2]
         THEN <<from[2]>>
         ELSE from
    ELSE <<>>

\* generateMoveNotation with every pawn move rendered as its bare destination.
generateMoveNotationBarePawn(game, from, to, piece, captured) ==
    IF piece = Null THEN <<>>
    ELSE IF piece[2] = "P" THEN to
    ELSE <<piece[2]>>
            \o Disambiguator(from, findAmbiguousMoves(game, from, to, piece))
            \o (IF captured # Null THEN <<"x">> ELSE <<>>) \o to

generateMoveNotation(game, from, to, piece, captured) ==
    IF piece = Null THEN <<>>
    ELSE IF piece[2] = "P"
    THEN IF captured # Null \/ from[1] # to[1]
         THEN <<from[1], "x">> \o to
         ELSE to
    ELSE <<piece[2]>>
            \o Disambiguator(from, findAmbiguousMoves(game, from, to, piece))
            \o (IF captured # Null THEN <<"x">> ELSE <<>>) \o to

\* ------------------------------------------------------- move executor

\* from.charCodeAt(0) for the characters a square can start with.
CharCode(c) == IF c \in FileSet THEN 97 + IndexOf(FileChars, c) ELSE 48 + ParseInt(c)

Abs(n) == IF n < 0 THEN -n ELSE n

\* to > from on two-character strings (lexicographic by character code)
StrGreater(to, from) ==
    \/ CharCode(to[1]) > CharCode(from[1])
    \/ CharCode(to[1]) = CharCode(from[1]) /\ CharCode(to[2]) > CharCode(from[2])

O_O == <<"O", "-", "O">>

O_O_O == <<"O", "-", "O", "-", "O">>

\* The castling branch of makeMove (lines 99-108): the rook's relocation.
CastleRook(position, from, to) ==
    LET isKingside == StrGreater(to, from)
        rookFrom == <<(IF isKingside THEN "h" ELSE "a"), from[2]>>
        rookTo == <<(IF isKingside THEN "f" ELSE "d"), from[2]>>
    IN PosDelete(PosSet(position, rookTo, position.map[rookFrom]), rookFrom)

\* this.currentPlayer === "w" ? "b" : "w", with the turn left as it was.
NextPlayerSame(currentPlayer) == currentPlayer

\* this.currentPlayer === "w" ? "b" : "w"
NextPlayer(currentPlayer) == IF currentPlayer = "w" THEN "b" ELSE "w"

\* The accepted move without the moveHistory.push (line 114 dropped).
ExecuteMoveUnrecorded(game, from, to, piece) ==
    [ok |-> TRUE,
     game |-> [position |-> PosDelete(PosSet(game.position, to, piece), from),
               currentPlayer |-> NextPlayer(game.currentPlayer),
               moveHistory |-> game.moveHistory]]

\* The accepted move without `delete this.position[from]` (line 112 dropped):
\* the piece is copied to its destination.
ExecuteMoveKeepOrigin(game, from, to, piece) ==
    LET captured == getPiece(game, to)
        isCastle == piece[2] = "K" /\ Abs(CharCode(from[1]) - CharCode(to[1])) = 2
        notation == IF isCastle
                    THEN IF StrGreater(to, from) THEN O_O ELSE O_O_O
                    ELSE generateMoveNotation(game, from, to, piece, captured)
        castled == IF isCastle THEN CastleRook(game.position, from, to)
                   ELSE game.position
    IN [ok |-> TRUE,
        game |-> [position |-> PosSet(castled, to, piece),
                  currentPlayer |-> NextPlayer(game.currentPlayer),
                  moveHistory |-> Append(game.moveHistory,
                      [from |-> from, to |-> to, piece |-> piece,
                       captured |-> captured, notation |-> notation])]]

\* The accepted move with promotion: a pawn that reaches the last rank is
\* replaced by a queen.
ExecuteMovePromoting(game, from, to, piece) ==
    LET captured == getPiece(game, to)
        isCastle == piece[2] = "K" /\ Abs(CharCode(from[1]) - CharCode(to[1])) = 2
        notation == IF isCastle
                    THEN IF StrGreater(to, from) THEN O_O ELSE O_O_O
                    ELSE generateMoveNotation(game, from, to, piece, captured)
        castled == IF isCastle THEN CastleRook(game.position, from, to)
                   ELSE game.position
        placed == IF piece[2] = "P" /\ to[2] \in {"1", "8"} THEN <<piece[1], "Q">>
                  ELSE piece
    IN [ok |-> TRUE,
        game |-> [position |-> PosDelete(PosSet(castled, to, placed), from),
                  currentPlayer |-> NextPlayer(game.currentPlayer),
                  moveHistory |-> Append(game.moveHistory,
                      [from |-> from, to |-> to, piece |-> piece,
                       captured |-> captured, notation |-> notation])]]

\* makeMove once the move is accepted (lines 96-122): the notation, the
\* castling rook, the move itself, the history entry and the turn.
ExecuteMove(game, from, to, piece) ==
    LET captured == getPiece(game, to)
        isCastle == piece[2] = "K" /\ Abs(CharCode(from[1]) - CharCode(to[1])) = 2
        notation == IF isCastle
                    THEN IF StrGreater(to, from) THEN O_O ELSE O_O_O
                    ELSE generateMoveNotation(game, from, to, piece, captured)
        castled == IF isCastle THEN CastleRook(game.position, from, to)
                   ELSE game.position
    IN [ok |-> TRUE,
        game |-> [position |-> PosDelete(PosSet(castled, to, piece), from),
                  currentPlayer |-> NextPlayer(game.currentPlayer),
                  moveHistory |-> Append(game.moveHistory,
                      [from |-> from, to |-> to, piece |-> piece,
                       captured |-> captured, notation |-> notation])]]

\* makeMove without the validMoves.includes(to) test (lines 88-94 dropped).
makeMoveAnywhere(game, from, to) ==
    IF getPiece(game, from) = Null THEN [ok |-> FALSE, game |-> game]
    ELSE IF getPiece(game, from)[1] # game.currentPlayer THEN [ok |-> FALSE, game |-> game]
    ELSE IF ~isValidSquare(to) THEN [ok |-> FALSE, game |-> game]
    ELSE ExecuteMove(game, from, to, getPiece(game, from))

\* makeMove with a king-safety filter: a move onto a king is refused.
makeMoveSparingKing(game, from, to) ==
    IF getPiece(game, from) = Null THEN [ok |-> FALSE, game |-> game]
    ELSE IF getPiece(game, from)[1] # game.currentPlayer THEN [ok |-> FALSE, game |-> game]
    ELSE IF ~Includes(getValidMoves(game, from), to) THEN [ok |-> FALSE, game |-> game]
    ELSE IF getPiece(game, to) # Null /\ getPiece(game, to)[2] = "K"
    THEN [ok |-> FALSE, game |-> game]
    ELSE ExecuteMove(game, from, to, getPiece(game, from))

\* makeMove(from, to) on a game value: the value returned and the game after.
makeMove(game, from, to) ==
    IF getPiece(game, from) = Null THEN [ok |-> FALSE, game |-> game]
    ELSE IF getPiece(game, from)[1] # game.currentPlayer THEN [ok |-> FALSE, game |-> game]
    ELSE IF ~Includes(getValidMoves(game, from), to) THEN [ok |-> FALSE, game |-> game]
    ELSE ExecuteMove(game, from, to, getPiece(game, from))

getLastMoveNotation(game) ==
    IF Len(game.moveHistory) = 0 THEN <<>>
    ELSE game.moveHistory[Len(game.moveHistory)].notation

\* ---------------------------------------------- notation codec: parsing

\* notation.replace(/[+#!?]+$/, ""): drops the trailing run of glyphs.
RECURSIVE StripGlyphs(_)
StripGlyphs(notation) ==
    IF notation # <<>> /\ notation[Len(notation)] \in Glyphs
    THEN StripGlyphs(SubSeq(notation, 1, Len(notation) - 1))
    ELSE notation

\* .trim(): drops leading and trailing blanks.
RECURSIVE Trim(_)
Trim(notation) ==
    IF notation # <<>> /\ notation[1] = " " THEN Trim(Tail(notation))
    ELSE IF notation # <<>> /\ notation[Len(notation)] = " "
    THEN Trim(SubSeq(notation, 1, Len(notation) - 1))
    ELSE notation

\* findCandidatePieces without the getValidMoves test (lines 275-276 dropped).
findCandidatePiecesAnyPiece(game, pieceType, toSquare, fromFile, fromRank, isCapture) ==
    LET targetPiece == getPiece(game, toSquare)
        candidate(square) ==
            /\ game.position.map[square] = <<game.currentPlayer, pieceType>>
            /\ (fromFile # <<>> => square[1] = fromFile[1])
            /\ (fromRank # <<>> => square[2] = fromRank[1])
            /\ IF isCapture
               THEN targetPiece # Null /\ targetPiece[1] # game.currentPlayer
               ELSE targetPiece = Null
    IN SelectSeq(game.position.keys, candidate)

\* findCandidatePieces without the empty-target test of non-capture notation
\* (lines 295-299 push unconditionally).
findCandidatePiecesAnyTarget(game, pieceType, toSquare, fromFile, fromRank, isCapture) ==
    LET targetPiece == getPiece(game, toSquare)
        candidate(square) ==
            /\ game.position.map[square] = <<game.currentPlayer, pieceType>>
            /\ (fromFile # <<>> => square[1] = fromFile[1])
            /\ (fromRank # <<>> => square[2] = fromRank[1])
            /\ Includes(getValidMoves(game, square), toSquare)
            /\ (isCapture => targetPiece # Null /\ targetPiece[1] # game.currentPlayer)
    IN SelectSeq(game.position.keys, candidate)

findCandidatePieces(game, pieceType, toSquare, fromFile, fromRank, isCapture) ==
    LET targetPieceCode == <<game.currentPlayer, pieceType>>
        targetPiece == getPiece(game, toSquare)
        enPassant ==
            LET file == toSquare[1]
                rank == toSquare[2]
                captureRank == IF game.currentPlayer = "w" THEN "5" ELSE "4"
                enPassantPiece == getPiece(game, <<file, captureRank>>)
            IN /\ rank = (IF game.currentPlayer = "w" THEN "6" ELSE "3")
               /\ enPassantPiece # Null
               /\ enPassantPiece[1] # game.currentPlayer
               /\ enPassantPiece[2] = "P"
        candidate(square) ==
            LET piece == game.position.map[square]
            IN /\ piece # Null
               /\ piece = targetPieceCode
               /\ (fromFile # <<>> => square[1] = fromFile[1])
               /\ (fromRank # <<>> => square[2] = fromRank[1])
               /\ Includes(getValidMoves(game, square), toSquare)
               /\ IF isCapture
                  THEN IF targetPiece # Null /\ targetPiece[1] # game.currentPlayer
                       THEN TRUE
                       ELSE IF pieceType = "P" /\ targetPiece = Null THEN enPassant
                       ELSE FALSE
                  ELSE targetPiece = Null
    IN SelectSeq(game.position.keys, candidate)

\* The shape tests of parseAlgebraicNotation, in the code's order; the result
\* is <<pieceType, fromFile, fromRank, isCapture, toSquare>> or Null.
ParseShape(n) ==
    LET sq(i) == n[i] \in FileSet /\ n[i + 1] \in RankSet
    IN CASE Len(n) = 2 /\ sq(1) ->
              <<"P", <<>>, <<>>, FALSE, n>>
         [] Len(n) = 4 /\ n[1] \in FileSet /\ n[2] = "x" /\ sq(3) ->
              <<"P", <<n[1]>>, <<>>, TRUE, SubSeq(n, 3, 4)>>
         [] Len(n) = 3 /\ n[1] \in PieceLetters /\ sq(2) ->
              <<n[1], <<>>, <<>>, FALSE, SubSeq(n, 2, 3)>>
         [] Len(n) = 4 /\ n[1] \in PieceLetters /\ n[2] = "x" /\ sq(3) ->
              <<n[1], <<>>, <<>>, TRUE, SubSeq(n, 3, 4)>>
         [] Len(n) = 4 /\ n[1] \in PieceLetters /\ n[2] \in FileSet /\ sq(3) ->
              <<n[1], <<n[2]>>, <<>>, FALSE, SubSeq(n, 3, 4)>>
         [] Len(n) = 4 /\ n[1] \in PieceLetters /\ n[2] \in RankSet /\ sq(3) ->
              <<n[1], <<>>, <<n[2]>>, FALSE, SubSeq(n, 3, 4)>>
         [] Len(n) = 5 /\ n[1] \in PieceLetters /\ n[2] \in FileSet /\ n[3] = "x"
               /\ sq(4) ->
              <<n[1], <<n[2]>>, <<>>, TRUE, SubSeq(n, 4, 5)>>
         [] Len(n) = 5 /\ n[1] \in PieceLetters /\ n[2] \in RankSet /\ n[3] = "x"
               /\ sq(4) ->
              <<n[1], <<>>, <<n[2]>>, TRUE, SubSeq(n, 4, 5)>>
         [] OTHER -> Null

\* return { from: candidates[0], to: toSquare }, or null without candidates
FirstCandidate(candidates, toSquare) ==
    IF Len(candidates) = 0 THEN Null ELSE <<candidates[1], toSquare>>

ResolveShape(game, shape) ==
    IF shape = Null THEN Null
    ELSE FirstCandidate(findCandidatePieces(game, shape[1], shape[5], shape[2],
                                            shape[3], shape[4]),
                        shape[5])

\* ParseNormalized with White's home rank for either side to move.
ParseNormalizedFirstRank(game, notation) ==
    IF notation = O_O \/ notation = <<"0", "-", "0">>
    THEN << <<"e", "1">>, <<"g", "1">> >>
    ELSE IF notation = O_O_O \/ notation = <<"0", "-", "0", "-", "0">>
    THEN << <<"e", "1">>, <<"c", "1">> >>
    ELSE ResolveShape(game, ParseShape(notation))

\* parseAlgebraicNotation once the glyphs are stripped and the blanks trimmed.
ParseNormalized(game, notation) ==
    IF notation = O_O \/ notation = <<"0", "-", "0">>
    THEN << <<"e", (IF game.currentPlayer = "w" THEN "1" ELSE "8")>>,
            <<"g", (IF game.currentPlayer = "w" THEN "1" ELSE "8")>> >>
    ELSE IF notation = O_O_O \/ notation = <<"0", "-", "0", "-", "0">>
    THEN << <<"e", (IF game.currentPlayer = "w" THEN "1" ELSE "8")>>,
            <<"c", (IF game.currentPlayer = "w" THEN "1" ELSE "8")>> >>
    ELSE ResolveShape(game, ParseShape(notation))

\* parseAlgebraicNotation(notation): <<from, to>> or Null.
parseAlgebraicNotation(game, token) == ParseNormalized(game, Trim(StripGlyphs(token)))

\* ================================================================ state
\* ChessGame objects live on a heap: an object's `position` and
\* `moveHistory` fields are references, so that two objects can share a
\* position or a history (which is what clone() must not let happen).

VARIABLES
    objs,       \* object name -> [position: ref, currentPlayer, moveHistory: ref]
    positions,  \* heap of position objects: ref -> [keys, map]
    histories,  \* heap of history arrays: ref -> sequence of Move
    ret,        \* the last call: [op, obj, value]
    inputs,     \* the (from, to) pairs the caller passes to makeMove in this run
    trainer,    \* ChessTrainer's state: [game, gameHistory, practiceSession, showHint]
    timers,     \* pending setTimeout callbacks, in the order they were set
    event       \* the last handler or timer callback of ChessTrainer that ran

vars == <<objs, positions, histories, ret, inputs, trainer, timers, event>>

engineVars == <<objs, positions, histories, ret, inputs>>

trainerVars == <<trainer, timers, event>>

\* Squares by name, for scripts and scenarios.
Sq(f, r) == <<f, DigitChars[r + 1]>>

GameIds == {"g", "c"}

MaxRefs == 2

Refs == 1..MaxRefs

MaxMoves == 7

\* The name `id` is bound to an object (reference 0 is the unbound name).
Constructed(id) == objs[id].position # 0

\* The object `id` as a value: its fields dereferenced.
Deref(id) ==
    [position |-> positions[objs[id].position],
     currentPlayer |-> objs[id].currentPlayer,
     moveHistory |-> histories[objs[id].moveHistory]]

\* The references a new object may take: those no other live object holds.
FreeRefs(dst, field) ==
    {r \in Refs : \A id \in GameIds \ {dst} : Constructed(id) => objs[id][field] # r}

NewRef(dst, field) == CHOOSE r \in FreeRefs(dst, field) : \A q \in FreeRefs(dst, field) : r <= q

\* clone() keeping the receiver's position object (no spread).
cloneSharedPosition(src, dst) ==
    [position |-> objs[src].position,
     currentPlayer |-> objs[src].currentPlayer,
     moveHistory |-> NewRef(dst, "moveHistory")]

\* clone(): the fields of the new object.  `new ChessGame()` and the two
\* spreads ({...this.position}, [...this.moveHistory]) allocate a fresh
\* position and a fresh history; currentPlayer is copied.
clone(src, dst) ==
    [position |-> NewRef(dst, "position"),
     currentPlayer |-> objs[src].currentPlayer,
     moveHistory |-> NewRef(dst, "moveHistory")]

\* ---------------------------------------------------------------- inputs

Mv(f1, r1, f2, r2) == <<Sq(f1, r1), Sq(f2, r2)>>

\* Black's waiting moves: the a-pawn walks down the board.
BlackTempo == {Mv("a", 7, "a", 6), Mv("a", 6, "a", 5), Mv("a", 5, "a", 4), Mv("a", 4, "a", 3)}

\* King-side castling set-up for both sides, and the castling requests.
LineCastle ==
    {Mv("e", 2, "e", 4), Mv("g", 1, "f", 3), Mv("f", 1, "c", 4), Mv("e", 1, "g", 1),
     Mv("a", 2, "a", 3), Mv("e", 7, "e", 5), Mv("g", 8, "f", 6), Mv("f", 8, "c", 5),
     Mv("e", 8, "g", 8)}

\* Queen-side castling set-up for White, and the castling request.
LineCastleLong ==
    {Mv("d", 2, "d", 4), Mv("b", 1, "c", 3), Mv("c", 1, "f", 4), Mv("d", 1, "d", 2),
     Mv("e", 1, "c", 1)} \cup BlackTempo

\* Two knights that reach c3: from b1 and e2 (file disambiguator).
LineKnightsFile ==
    {Mv("e", 2, "e", 4), Mv("g", 1, "e", 2), Mv("b", 1, "c", 3), Mv("e", 2, "c", 3),
     Mv("c", 3, "d", 5), Mv("e", 2, "z", 9), Mv("e", 3, "e", 4)} \cup BlackTempo

\* Knights on b1 and d2 (the d2 knight has no move to c3).
LineKnightsD2 ==
    {Mv("d", 2, "d", 4), Mv("g", 1, "f", 3), Mv("f", 3, "d", 2), Mv("b", 1, "c", 3),
     Mv("d", 2, "c", 3)} \cup BlackTempo

\* Knights on b1 and b5, both reaching c3 and a3 (rank disambiguator).
LineKnightsRank ==
    {Mv("g", 1, "f", 3), Mv("f", 3, "d", 4), Mv("d", 4, "b", 5), Mv("b", 1, "c", 3),
     Mv("b", 5, "c", 3), Mv("b", 1, "a", 3), Mv("b", 5, "c", 7)} \cup BlackTempo

\* Captures by pawns and pieces, for both sides.
LineCaptures ==
    {Mv("e", 2, "e", 4), Mv("d", 7, "d", 5), Mv("e", 4, "d", 5), Mv("d", 8, "d", 5),
     Mv("b", 1, "c", 3), Mv("c", 3, "d", 5), Mv("g", 8, "f", 6), Mv("f", 6, "d", 5),
     Mv("d", 5, "e", 4), Mv("d", 8, "d", 2)}

\* Black's waiting moves when the a-file is in use: the e-pawn walks down.
BlackTempoE == {Mv("e", 7, "e", 6), Mv("e", 6, "e", 5), Mv("e", 5, "e", 4), Mv("e", 4, "e", 3)}

\* A rook lifts, swings across the third rank and captures up the h-file.
LineRooks ==
    {Mv("a", 2, "a", 4), Mv("a", 1, "a", 3), Mv("a", 3, "h", 3), Mv("h", 3, "h", 7),
     Mv("a", 3, "a", 4), Mv("a", 1, "h", 1)} \cup BlackTempoE

\* Knights that reach e4 and f3 in either order, then both reach g5.
LineTranspose ==
    {Mv("b", 1, "c", 3), Mv("g", 1, "f", 3), Mv("c", 3, "e", 4),
     Mv("a", 7, "a", 6), Mv("a", 6, "a", 5), Mv("a", 5, "a", 4)}

\* A pawn exchange in the centre.
LineExchange == {Mv("e", 2, "e", 4), Mv("d", 7, "d", 5), Mv("e", 4, "d", 5), Mv("d", 8, "d", 5)}

\* Pawns side by side on the fifth and on the fourth rank after a double step.
LineEnPassant ==
    {Mv("e", 2, "e", 4), Mv("e", 4, "e", 5), Mv("d", 7, "d", 5), Mv("a", 7, "a", 6),
     Mv("d", 5, "d", 4), Mv("c", 2, "c", 4), Mv("e", 5, "d", 6)}

\* The queen takes the king: e4, f6, Qh5, a6, Qxe8, and Black plays on.
LineKingCapture ==
    {Mv("e", 2, "e", 4), Mv("f", 7, "f", 6), Mv("d", 1, "h", 5), Mv("h", 5, "e", 8)}
        \cup BlackTempo

\* Pawns that walk to the far side: the h-pawn (or the g-pawn) takes its way to
\* the eighth rank while Black's a- and b-pawns advance.
LinePromotion ==
    {Mv("h", 2, "h", 4), Mv("h", 4, "h", 5), Mv("h", 5, "h", 6), Mv("h", 6, "g", 7),
     Mv("g", 7, "h", 8), Mv("g", 7, "f", 8), Mv("g", 2, "g", 4), Mv("g", 4, "g", 5),
     Mv("g", 5, "g", 6), Mv("g", 6, "h", 7), Mv("h", 7, "g", 8),
     Mv("b", 7, "b", 6), Mv("b", 6, "b", 5), Mv("b", 5, "b", 4)} \cup BlackTempo

\* The longest game played move by move to the far side of the board.
MaxLongMoves == 9

ApiLines == {LineTranspose, LineExchange}

Lines ==
    {LineCastle, LineCastleLong, LineKnightsFile, LineKnightsD2, LineKnightsRank,
     LineCaptures, LineRooks, LineEnPassant}

\* The lines played for the rules of movement: pawns side by side, a rook and
\* a queen on open lines, captures, the king taken, two knights on one file.
BoardLines == {LineEnPassant, LineRooks, LineCaptures, LineKingCapture, LineKnightsRank}

\* The destination squares of the tokens tried: the four middle ranks.
TokenSquares == {sq \in Squares : sq[2] \in {"3", "4", "5", "6"}}

\* The squares and tokens the caller asks about.
ProbeSquares == {Sq("e", 2), Sq("e", 4), Sq("b", 1), Sq("e", 8), Sq("z", 9)}

ProbeTokens ==
    {<<"e", "4">>, <<"N", "g", "5">>, <<"N", "f", "3", "+">>, O_O, <<"e", "x", "d", "5">>,
     <<"N", "b", "1", "c", "3">>}

\* ---------------------------------------------------- trainer inputs

\* The saved repertoire offered for practice: a line played as White, a
\* defence whose first move the computer plays, a line that opens with a
\* castling token and a line whose first token no white piece can play.
ItalianGame ==
    [id |-> "v1", name |-> <<"I", "t", "a", "l", "i", "a", "n", " ", "G", "a", "m", "e">>,
     moves |-> <<<<"e", "4">>, <<"e", "5">>, <<"N", "f", "3">>>>]

SicilianDefense ==
    [id |-> "v2", name |-> <<"S", "i", "c", "i", "l", "i", "a", "n", " ", "D", "e", "f", "e", "n", "s", "e">>,
     moves |-> <<<<"e", "4">>, <<"c", "5">>>>]

CastleCounter ==
    [id |-> "v3", name |-> <<"C", "a", "s", "t", "l", "e", " ", "C", "o", "u", "n", "t", "e", "r">>,
     moves |-> <<<<"O", "-", "O">>, <<"e", "5">>>>]

FrenchDefence ==
    [id |-> "v4", name |-> <<"F", "r", "e", "n", "c", "h", " ", "D", "e", "f", "e", "n", "c", "e">>,
     moves |-> <<<<"e", "5">>, <<"d", "5">>>>]

Repertoire == {ItalianGame, SicilianDefense, CastleCounter, FrenchDefence}

\* The selections startPractice is called with, in every shuffled order.
Selections ==
    {<<v>> : v \in Repertoire}
        \cup {<<ItalianGame, SicilianDefense>>, <<SicilianDefense, ItalianGame>>}

\* The moves the board hands to handleMove: right ones, wrong ones and one
\* that is no move at all.
UserMoves ==
    {Mv("e", 2, "e", 4), Mv("d", 2, "d", 4), Mv("e", 2, "e", 5), Mv("e", 7, "e", 5),
     Mv("c", 7, "c", 5)}

MaxTimers == 1

MaxTotal == 3

MaxPlies == 2

\* ---------------------------------------------------------- ChessTrainer
\* The page component: its state, its handlers and its timer callbacks.  The
\* displayed game is held as a value: every handler works on game.clone() and
\* publishes the clone with setGame, so no published object is written again.

UpperChars ==
    <<"A", "B", "C", "D", "E", "F", "G", "H", "I", "J", "K", "L", "M", "N", "O", "P", "Q", "R", "S", "T", "U", "V", "W", "X", "Y", "Z">>

LowerChars ==
    <<"a", "b", "c", "d", "e", "f", "g", "h", "i", "j", "k", "l", "m", "n", "o", "p", "q", "r", "s", "t", "u", "v", "w", "x", "y", "z">>

\* variationName.toLowerCase()
toLowerCase(str) ==
    [i \in 1..Len(str) |->
        IF \E k \in 1..26 : UpperChars[k] = str[i]
        THEN LowerChars[CHOOSE k \in 1..26 : UpperChars[k] = str[i]]
        ELSE str[i]]

\* str.includes(keyword)
StrIncludes(str, keyword) ==
    \E i \in 1..(Len(str) - Len(keyword) + 1) :
        SubSeq(str, i, i + Len(keyword) - 1) = keyword

defenseKeywords ==
    <<<<"d", "e", "f", "e", "n", "s", "e">>,
      <<"d", "e", "f", "e", "n", "c", "e">>,
      <<"d", "e", "c", "l", "i", "n", "e", "d">>,
      <<"c", "o", "u", "n", "t", "e", "r">>,
      <<"s", "i", "c", "i", "l", "i", "a", "n">>,
      <<"f", "r", "e", "n", "c", "h">>,
      <<"c", "a", "r", "o", "-", "k", "a", "n", "n">>,
      <<"a", "l", "e", "k", "h", "i", "n", "e">>,
      <<"p", "i", "r", "c">>,
      <<"m", "o", "d", "e", "r", "n">>,
      <<"s", "c", "a", "n", "d", "i", "n", "a", "v", "i", "a", "n">>,
      <<"n", "i", "m", "z", "o">>>>

isDefenseOpening(variationName) ==
    \E k \in 1..Len(defenseKeywords) :
        StrIncludes(toLowerCase(variationName), defenseKeywords[k])

\* normalizeMove without the replace: glyphs are kept.
normalizeMoveKeepGlyphs(move) == Trim(move)

\* normalizeMove of handlePracticeMove
normalizeMove(move) == Trim(StripGlyphs(move))

\* useState's initial values.
NewTrainer ==
    [game |-> NewGame, gameHistory |-> <<>>, practiceSession |-> <<>>, showHint |-> <<>>]

\* A pending setTimeout callback: the function it calls, its delay, and what
\* its closure holds (the practiceSession and game of the render that set it,
\* or the arguments of makeComputerMove).
Timer(fn, delay, practiceSession, currentGame, moveNotation) ==
    [fn |-> fn, delay |-> delay, practiceSession |-> practiceSession,
     game |-> currentGame, moveNotation |-> moveNotation]

\* What a handler leaves behind: the state after its setters, the timers it set.
Outcome(st, newTimers) == [trainer |-> st, timers |-> newTimers]

\* setPracticeSession((prev) => (prev ? {...prev, currentMoveIndex: prev.currentMoveIndex + 1} : null))
AdvanceMoveIndex(prev) ==
    IF prev = <<>> THEN <<>>
    ELSE <<[prev[1] EXCEPT !.currentMoveIndex = @ + 1]>>

\* makeComputerMove after newGame.makeMove returned `r`, recording the move
\* whether or not it succeeded.
ComputerMoveMadeUnchecked(st, r) ==
    Outcome([st EXCEPT !.game = r.game,
                       !.gameHistory = Append(@, getLastMoveNotation(r.game)),
                       !.practiceSession = AdvanceMoveIndex(@)], <<>>)

\* makeComputerMove after newGame.makeMove returned `r` (lines 458-467).
ComputerMoveMade(st, r) ==
    IF r.ok
    THEN Outcome([st EXCEPT !.game = r.game,
                            !.gameHistory = Append(@, getLastMoveNotation(r.game)),
                            !.practiceSession = AdvanceMoveIndex(@)], <<>>)
    ELSE Outcome(st, <<>>)

\* makeComputerMove once the token is parsed (lines 455-468).
ComputerMoveParsed(st, currentGame, moveData) ==
    IF moveData # Null
    THEN ComputerMoveMade(st, makeMove(currentGame, moveData[1], moveData[2]))
    ELSE Outcome(st, <<>>)

makeComputerMove(st, currentGame, moveNotation) ==
    ComputerMoveParsed(st, currentGame, parseAlgebraicNotation(currentGame, moveNotation))

\* makeOpponentMove when the closure's variation is played out (lines 357-382).
\* prev is the state's session when the setter runs; {...prev!, ...} of a null
\* prev is an object with the named fields only.
VariationComplete(st, ps) ==
    IF ps.currentVariationIndex + 1 < Len(ps.variations)
    THEN LET nextVariationIndex == ps.currentVariationIndex + 1
             nextVariation == ps.variations[nextVariationIndex + 1]
             userPlaysBlack == isDefenseOpening(nextVariation.name)
             session ==
                 IF st.practiceSession = <<>>
                 THEN [currentVariationIndex |-> nextVariationIndex,
                       currentMoveIndex |-> 0, userPlaysBlack |-> userPlaysBlack]
                 ELSE [st.practiceSession[1] EXCEPT
                          !.currentVariationIndex = nextVariationIndex,
                          !.currentMoveIndex = 0,
                          !.userPlaysBlack = userPlaysBlack]
         IN Outcome([st EXCEPT !.practiceSession = <<session>>,
                               !.game = NewGame,
                               !.gameHistory = <<>>],
                    IF userPlaysBlack /\ Len(nextVariation.moves) > 0
                    THEN <<Timer("makeComputerMove", 500, <<>>, NewGame,
                                 nextVariation.moves[1])>>
                    ELSE <<>>)
    ELSE Outcome([st EXCEPT !.practiceSession =
                     IF @ = <<>> THEN <<[completed |-> TRUE]>>
                     ELSE <<[@[1] EXCEPT !.completed = TRUE]>>], <<>>)

\* makeOpponentMove as a timer callback: practiceSession and game are those of
\* the render whose handler set the timer.
makeOpponentMove(st, practiceSession, currentGame) ==
    IF practiceSession = <<>> THEN Outcome(st, <<>>)
    ELSE IF practiceSession[1].completed THEN Outcome(st, <<>>)
    ELSE LET ps == practiceSession[1]
             currentVariation == ps.variations[ps.currentVariationIndex + 1]
         IN IF ps.currentMoveIndex >= Len(currentVariation.moves)
            THEN VariationComplete(st, ps)
            ELSE makeComputerMove(st, currentGame,
                                  currentVariation.moves[ps.currentMoveIndex + 1])

\* The hint after a wrong move (lines 335-345): by the attempts before it.
HintAfterWrongMove(st, ps, moveData) ==
    IF ps.attempts = 1 /\ moveData # Null THEN <<moveData[1], <<>>>>
    ELSE IF ps.attempts = 3 /\ moveData # Null THEN <<moveData[1], moveData[2]>>
    ELSE st.showHint

\* handlePracticeMove with the trial move made on the displayed game itself
\* (no clone): a wrong move stays on the board.
PracticeMoveMadeInPlace(st, ps, expectedMove, r) ==
    IF r.ok
    THEN IF normalizeMove(getLastMoveNotation(r.game)) = normalizeMove(expectedMove)
         THEN Outcome([game |-> r.game,
                       gameHistory |-> Append(st.gameHistory, getLastMoveNotation(r.game)),
                       practiceSession |->
                           <<[ps EXCEPT !.accuracy = [correct |-> @.correct + 1,
                                                     total |-> @.total + 1],
                                        !.attempts = 0,
                                        !.currentMoveIndex = @ + 1]>>,
                       showHint |-> <<>>],
                      <<Timer("makeOpponentMove", 1000, st.practiceSession, st.game, <<>>)>>)
         ELSE Outcome([st EXCEPT
                          !.game = r.game,
                          !.practiceSession =
                              <<[ps EXCEPT !.accuracy = [correct |-> @.correct,
                                                        total |-> @.total + 1],
                                           !.attempts = @ + 1]>>,
                          !.showHint = HintAfterWrongMove(st, ps,
                              parseAlgebraicNotation(st.game, expectedMove))],
                      <<>>)
    ELSE Outcome(st, <<>>)

\* handlePracticeMove after newGame.makeMove(from, to) returned `r` on the
\* clone (lines 300-349).
PracticeMoveMade(st, ps, expectedMove, r) ==
    IF r.ok
    THEN IF normalizeMove(getLastMoveNotation(r.game)) = normalizeMove(expectedMove)
         THEN Outcome([game |-> r.game,
                       gameHistory |-> Append(st.gameHistory, getLastMoveNotation(r.game)),
                       practiceSession |->
                           <<[ps EXCEPT !.accuracy = [correct |-> @.correct + 1,
                                                     total |-> @.total + 1],
                                        !.attempts = 0,
                                        !.currentMoveIndex = @ + 1]>>,
                       showHint |-> <<>>],
                      <<Timer("makeOpponentMove", 1000, st.practiceSession, st.game, <<>>)>>)
         ELSE Outcome([st EXCEPT
                          !.practiceSession =
                              <<[ps EXCEPT !.accuracy = [correct |-> @.correct,
                                                        total |-> @.total + 1],
                                           !.attempts = @ + 1]>>,
                          !.showHint = HintAfterWrongMove(st, ps,
                              parseAlgebraicNotation(st.game, expectedMove))],
                      <<>>)
    ELSE Outcome(st, <<>>)

handlePracticeMove(st, from, to) ==
    IF st.practiceSession = <<>> THEN Outcome(st, <<>>)
    ELSE IF st.practiceSession[1].completed THEN Outcome(st, <<>>)
    ELSE LET ps == st.practiceSession[1]
             currentVariation == ps.variations[ps.currentVariationIndex + 1]
         IN IF ps.currentMoveIndex >= Len(currentVariation.moves)
            THEN Outcome(st, <<>>)
            ELSE PracticeMoveMade(st, ps, currentVariation.moves[ps.currentMoveIndex + 1],
                                  makeMove(st.game, from, to))

\* handleMove in free play after newGame.makeMove(from, to) returned `r`.
FreeMoveMade(st, r) ==
    IF r.ok
    THEN Outcome([st EXCEPT !.game = r.game,
                            !.gameHistory = Append(@, getLastMoveNotation(r.game))], <<>>)
    ELSE Outcome(st, <<>>)

handleMove(st, from, to) ==
    IF st.practiceSession # <<>>
    THEN handlePracticeMove(st, from, to)
    ELSE FreeMoveMade(st, makeMove(st.game, from, to))

\* startPractice once the selection is shuffled.
startPractice(st, shuffledVariations) ==
    LET firstVariation == shuffledVariations[1]
        userPlaysBlack == isDefenseOpening(firstVariation.name)
    IN Outcome([game |-> NewGame,
                gameHistory |-> <<>>,
                practiceSession |->
                    <<[variations |-> shuffledVariations,
                       currentVariationIndex |-> 0,
                       currentMoveIndex |-> 0,
                       attempts |-> 0,
                       accuracy |-> [correct |-> 0, total |-> 0],
                       completed |-> FALSE,
                       userPlaysBlack |-> userPlaysBlack]>>,
                showHint |-> <<>>],
               IF userPlaysBlack /\ Len(firstVariation.moves) > 0
               THEN <<Timer("makeComputerMove", 1000, <<>>, NewGame, firstVariation.moves[1])>>
               ELSE <<>>)

stopPractice(st) == Outcome(NewTrainer, <<>>)

\* ---------------------------------------------------------------- actions

\* new ChessGame() bound to g; no other object exists yet.
Construct ==
    /\ objs = [id \in GameIds |->
                 IF id = "g"
                 THEN [position |-> 1, currentPlayer |-> "w", moveHistory |-> 1]
                 ELSE [position |-> 0, currentPlayer |-> "w", moveHistory |-> 0]]
    /\ positions = [r \in Refs |-> IF r = 1 THEN getInitialPosition ELSE EmptyPosition]
    /\ histories = [r \in Refs |-> <<>>]
    /\ ret = [op |-> "new", obj |-> "g", value |-> TRUE]

\* The page is mounted: useState's initial values, no timer pending.
Mount ==
    /\ trainer = NewTrainer
    /\ timers = <<>>
    /\ event = [op |-> "mount", from |-> <<>>, to |-> <<>>,
                timer |-> Timer("", 0, <<>>, NewGame, <<>>)]

Init == Construct /\ inputs \in Lines /\ Mount

InitApi == Construct /\ inputs \in ApiLines /\ Mount

\* The object `id` takes the fields of the game value `game`.
Store(id, game) ==
    /\ positions' = [positions EXCEPT ![objs[id].position] = game.position]
    /\ histories' = [histories EXCEPT ![objs[id].moveHistory] = game.moveHistory]
    /\ objs' = [objs EXCEPT ![id].currentPlayer = game.currentPlayer]

Returned(id, r) ==
    /\ Store(id, r.game)
    /\ ret' = [op |-> "makeMove", obj |-> id, value |-> r.ok]

\* id.makeMove(from, to)
MakeMove(id, from, to) ==
    /\ Constructed(id)
    /\ Len(histories[objs[id].moveHistory]) < MaxMoves
    /\ Returned(id, makeMove(Deref(id), from, to))
    /\ UNCHANGED inputs
    /\ UNCHANGED trainerVars

\* id.getPiece(square)
GetPiece(id, square) ==
    /\ Constructed(id)
    /\ ret' = [op |-> "getPiece", obj |-> id, value |-> getPiece(Deref(id), square)]
    /\ UNCHANGED <<objs, positions, histories, inputs>>
    /\ UNCHANGED trainerVars

\* id.getValidMoves(square)
GetValidMoves(id, square) ==
    /\ Constructed(id)
    /\ ret' = [op |-> "getValidMoves", obj |-> id,
               value |-> getValidMoves(Deref(id), square)]
    /\ UNCHANGED <<objs, positions, histories, inputs>>
    /\ UNCHANGED trainerVars

\* id.parseAlgebraicNotation(token)
ParseAlgebraicNotation(id, token) ==
    /\ Constructed(id)
    /\ ret' = [op |-> "parseAlgebraicNotation", obj |-> id,
               value |-> parseAlgebraicNotation(Deref(id), token)]
    /\ UNCHANGED <<objs, positions, histories, inputs>>
    /\ UNCHANGED trainerVars

\* id.getLastMoveNotation() reading the entry with pop().
GetLastMoveNotationPop(id) ==
    /\ Constructed(id)
    /\ ret' = [op |-> "getLastMoveNotation", obj |-> id,
               value |-> getLastMoveNotation(Deref(id))]
    /\ histories' = [histories EXCEPT ![objs[id].moveHistory] =
                        SubSeq(@, 1, IF Len(@) = 0 THEN 0 ELSE Len(@) - 1)]
    /\ UNCHANGED <<objs, positions, inputs>>
    /\ UNCHANGED trainerVars

\* id.getLastMoveNotation()
GetLastMoveNotation(id) ==
    /\ Constructed(id)
    /\ ret' = [op |-> "getLastMoveNotation", obj |-> id,
               value |-> getLastMoveNotation(Deref(id))]
    /\ UNCHANGED <<objs, positions, histories, inputs>>
    /\ UNCHANGED trainerVars

\* dst = src.clone()
Clone(src, dst) ==
    /\ Constructed(src)
    /\ src # dst
    /\ LET fields == clone(src, dst)
       IN /\ objs' = [objs EXCEPT ![dst] = fields]
          /\ positions' = [positions EXCEPT
                 ![fields.position] = positions[objs[src].position]]
          /\ histories' = [histories EXCEPT
                 ![fields.moveHistory] = histories[objs[src].moveHistory]]
    /\ ret' = [op |-> "clone", obj |-> src, value |-> dst]
    /\ UNCHANGED inputs
    /\ UNCHANGED trainerVars

DoMakeMove == \E id \in GameIds : \E m \in inputs : MakeMove(id, m[1], m[2])

DoGetPiece == \E id \in GameIds : \E square \in ProbeSquares : GetPiece(id, square)

DoGetValidMoves == \E id \in GameIds : \E square \in ProbeSquares : GetValidMoves(id, square)

DoParse == \E id \in GameIds : \E token \in ProbeTokens : ParseAlgebraicNotation(id, token)

DoGetLastMoveNotation == \E id \in GameIds : GetLastMoveNotation(id)

DoClone == \E src \in GameIds : \E dst \in GameIds : Clone(src, dst)

\* One ChessGame object, played through makeMove.
Next == DoMakeMove

Spec == Init /\ [][Next]_vars

\* Two ChessGame objects, the second a clone of the first, driven through the
\* whole public interface.
NextApi ==
    \/ DoMakeMove
    \/ DoGetPiece
    \/ DoGetValidMoves
    \/ DoParse
    \/ DoGetLastMoveNotation
    \/ DoClone

SpecApi == InitApi /\ [][NextApi]_vars

\* One ChessGame object, played through makeMove along the lines of BoardLines.
InitBoard == Construct /\ inputs \in BoardLines /\ Mount

SpecBoard == InitBoard /\ [][Next]_vars

\* One ChessGame object played through a long line, far enough for a pawn to
\* reach the last rank.
InitLong == Construct /\ inputs = LinePromotion /\ Mount

\* g.makeMove(from, to), up to MaxLongMoves accepted moves.
MakeMoveLong(from, to) ==
    /\ Len(histories[objs["g"].moveHistory]) < MaxLongMoves
    /\ Returned("g", makeMove(Deref("g"), from, to))
    /\ UNCHANGED inputs
    /\ UNCHANGED trainerVars

NextLong == \E m \in inputs : MakeMoveLong(m[1], m[2])

SpecLong == InitLong /\ [][NextLong]_vars

\* ------------------------------------------------- ChessTrainer: actions

InitTrainer == Construct /\ inputs = {} /\ Mount

\* The handler or callback ran: its setters are applied and its timers set
\* (at most MaxTimers are pending at a time).
Rendered(out) ==
    /\ Len(timers) + Len(out.timers) <= MaxTimers
    /\ trainer' = out.trainer
    /\ timers' = timers \o out.timers

\* The same, for a callback fired from timer i, which leaves the queue.
RenderedAfterTimer(i, out) ==
    /\ trainer' = out.trainer
    /\ timers' = SubSeq(timers, 1, i - 1) \o SubSeq(timers, i + 1, Len(timers)) \o out.timers

\* Timer i is due before every timer set earlier with a longer delay, and
\* after every timer set earlier with the same or a shorter delay.
Due(i) ==
    /\ i \in 1..Len(timers)
    /\ \A j \in 1..(i - 1) : timers[j].delay > timers[i].delay

\* The board calls onMove(from, to).
HandleMove(from, to) ==
    /\ Len(trainer.game.moveHistory) < MaxPlies
    /\ trainer.practiceSession # <<>> => trainer.practiceSession[1].accuracy.total < MaxTotal
    /\ Rendered(handleMove(trainer, from, to))
    /\ event' = [op |-> "handleMove", from |-> from, to |-> to,
                 timer |-> Timer("", 0, <<>>, NewGame, <<>>)]
    /\ UNCHANGED engineVars

\* PracticeControls calls onStartPractice (its buttons are disabled in practice).
StartPractice(shuffledVariations) ==
    /\ trainer.practiceSession = <<>>
    /\ Rendered(startPractice(trainer, shuffledVariations))
    /\ event' = [op |-> "startPractice", from |-> <<>>, to |-> <<>>,
                 timer |-> Timer("", 0, <<>>, NewGame, <<>>)]
    /\ UNCHANGED engineVars

\* The Stop Practice button (rendered in practice only).
StopPractice ==
    /\ trainer.practiceSession # <<>>
    /\ Rendered(stopPractice(trainer))
    /\ event' = [op |-> "stopPractice", from |-> <<>>, to |-> <<>>,
                 timer |-> Timer("", 0, <<>>, NewGame, <<>>)]
    /\ UNCHANGED engineVars

\* A timer set by handlePracticeMove fires: makeOpponentMove() of that render.
FireMakeOpponentMove(i) ==
    /\ Due(i)
    /\ timers[i].fn = "makeOpponentMove"
    /\ RenderedAfterTimer(i, makeOpponentMove(trainer, timers[i].practiceSession,
                                              timers[i].game))
    /\ event' = [op |-> "makeOpponentMove", from |-> <<>>, to |-> <<>>, timer |-> timers[i]]
    /\ UNCHANGED engineVars

\* A timer set by startPractice or makeOpponentMove fires:
\* makeComputerMove(newGame, moves[0]).
FireMakeComputerMove(i) ==
    /\ Due(i)
    /\ timers[i].fn = "makeComputerMove"
    /\ RenderedAfterTimer(i, makeComputerMove(trainer, timers[i].game,
                                              timers[i].moveNotation))
    /\ event' = [op |-> "makeComputerMove", from |-> <<>>, to |-> <<>>, timer |-> timers[i]]
    /\ UNCHANGED engineVars

DoHandleMove == \E m \in UserMoves : HandleMove(m[1], m[2])

DoStartPractice == \E shuffledVariations \in Selections : StartPractice(shuffledVariations)

DoFireMakeOpponentMove == \E i \in 1..MaxTimers : FireMakeOpponentMove(i)

DoFireMakeComputerMove == \E i \in 1..MaxTimers : FireMakeComputerMove(i)

NextTrainer ==
    \/ DoHandleMove
    \/ DoStartPractice
    \/ StopPractice
    \/ DoFireMakeOpponentMove
    \/ DoFireMakeComputerMove

SpecTrainer == InitTrainer /\ [][NextTrainer]_vars

\* ------------------------------------- ChessTrainer: the faultless user
\* A user who, in practice, plays nothing but the expected move (and may stop a
\* practice and start another); every timer that is set fires.

\* The board calls onMove(from, to) with the move the session expects.
PlayExpectedMove(from, to) ==
    /\ trainer.practiceSession # <<>>
    /\ LET ps == trainer.practiceSession[1]
           moves == ps.variations[ps.currentVariationIndex + 1].moves
       IN /\ ~ps.completed
          /\ ps.currentMoveIndex < Len(moves)
          /\ makeMove(trainer.game, from, to).ok
          /\ normalizeMove(getLastMoveNotation(makeMove(trainer.game, from, to).game))
                = normalizeMove(moves[ps.currentMoveIndex + 1])
    /\ HandleMove(from, to)

DoPlayExpectedMove == \E m \in UserMoves : PlayExpectedMove(m[1], m[2])

\* The selections practised: one variation, or two in either order.
Programmes ==
    {<<v>> : v \in Repertoire}
        \cup ({<<v, w>> : v \in Repertoire, w \in Repertoire} \ {<<v, v>> : v \in Repertoire})

DoStartProgramme == \E shuffledVariations \in Programmes : StartPractice(shuffledVariations)

NextFaultless ==
    \/ DoStartProgramme
    \/ StopPractice
    \/ DoPlayExpectedMove
    \/ DoFireMakeOpponentMove
    \/ DoFireMakeComputerMove

\* The timers a timer callback may set in its turn: none, or the computer's
\* first move of the next variation (makeOpponentMove, lines 375-379).
FollowUps ==
    {<<>>} \cup {<<Timer("makeComputerMove", 500, <<>>, NewGame, v.moves[1])>> : v \in Repertoire}

\* Timer i has left the queue, and the callback's own timers have joined it.
TimerLeaves(i, newTimers) ==
    timers' \in {SubSeq(timers, 1, i - 1) \o SubSeq(timers, i + 1, Len(timers)) \o new :
                    new \in newTimers}

\* The step FireMakeOpponentMove, told by its guard and by what it does to the
\* queue of timers (no other step takes a timer off the queue).
OpponentTimerFires ==
    \E i \in 1..MaxTimers :
        Due(i) /\ timers[i].fn = "makeOpponentMove" /\ TimerLeaves(i, FollowUps)

\* The step FireMakeComputerMove, told the same way.
ComputerTimerFires ==
    \E i \in 1..MaxTimers :
        Due(i) /\ timers[i].fn = "makeComputerMove" /\ TimerLeaves(i, {<<>>})

\* setTimeout callbacks run once their delay has passed: a timer that is due
\* fires.  Nothing is assumed of the user beyond the moves played.
SpecFaultless ==
    /\ InitTrainer
    /\ [][NextFaultless]_vars
    /\ WF_timers(OpponentTimerFires)
    /\ WF_timers(ComputerTimerFires)

\* ------------------------------------------- ChessTrainer: the drilled user
\* A user who keeps trying at one expected move: up to MaxAttempts counted
\* moves in a practice of one variation.

\* A line of one move, saved with its check glyph (the importer keeps + and #).
KingsPawn ==
    [id |-> "v5", name |-> <<"K", "i", "n", "g", "'", "s", " ", "P", "a", "w", "n">>,
     moves |-> <<<<"e", "4", "+">>>>]

\* The selections drilled: one variation each.
Drills == {<<KingsPawn>>, <<ItalianGame>>, <<SicilianDefense>>, <<FrenchDefence>>}

MaxAttempts == 4

\* The board calls onMove(from, to) during a practice.
Attempt(from, to) ==
    /\ trainer.practiceSession # <<>>
    /\ Len(trainer.game.moveHistory) < MaxPlies
    /\ trainer.practiceSession[1].accuracy.total < MaxAttempts
    /\ Rendered(handleMove(trainer, from, to))
    /\ event' = [op |-> "handleMove", from |-> from, to |-> to,
                 timer |-> Timer("", 0, <<>>, NewGame, <<>>)]
    /\ UNCHANGED engineVars

DoAttempt == \E m \in UserMoves : Attempt(m[1], m[2])

DoStartDrill == \E shuffledVariations \in Drills : StartPractice(shuffledVariations)

NextDrill ==
    \/ DoStartDrill
    \/ StopPractice
    \/ DoAttempt
    \/ DoFireMakeOpponentMove
    \/ DoFireMakeComputerMove

SpecDrill == InitTrainer /\ [][NextDrill]_vars

\* ================================================================ claims

\* The squares a caller may name: every square of the board and a malformed one.
CallSquares == Squares \cup {Sq("z", 9)}

Live == {id \in GameIds : Constructed(id)}

\* The last entry of a game's history (the game has one).
LastMove(game) == game.moveHistory[Len(game.moveHistory)]

\* ---- C1
\* The castling case of the claim for one side: the king on its e-square, the
\* rook on its corner, the squares between them empty, that side to move.
CastlingCase(game, color, rookFile) ==
    LET rank == IF color = "w" THEN "1" ELSE "8"
        between == IF rookFile = "h" THEN {"f", "g"} ELSE {"b", "c", "d"}
    IN /\ game.currentPlayer = color
       /\ getPiece(game, <<"e", rank>>) = <<color, "K">>
       /\ getPiece(game, <<rookFile, rank>>) = <<color, "R">>
       /\ \A f \in between : getPiece(game, <<f, rank>>) = Null

\* What the claim says makeMove does in the castling case.
CastlingDone(r, color, rookFile) ==
    LET rank == IF color = "w" THEN "1" ELSE "8"
        kingTo == IF rookFile = "h" THEN "g" ELSE "c"
        rookTo == IF rookFile = "h" THEN "f" ELSE "d"
    IN /\ r.ok
       /\ getPiece(r.game, <<kingTo, rank>>) = <<color, "K">>
       /\ getPiece(r.game, <<rookTo, rank>>) = <<color, "R">>
       /\ getPiece(r.game, <<"e", rank>>) = Null
       /\ getPiece(r.game, <<rookFile, rank>>) = Null
       /\ getLastMoveNotation(r.game) = (IF rookFile = "h" THEN O_O ELSE O_O_O)

CastlingRequest(game, color, rookFile) ==
    makeMove(game, <<"e", (IF color = "w" THEN "1" ELSE "8")>>,
             <<(IF rookFile = "h" THEN "g" ELSE "c"), (IF color = "w" THEN "1" ELSE "8")>>)

\* C1: castling executes.  In every reachable state in which a side to move
\* has its king on the e-square of its home rank, a rook on the h (a) corner
\* and the squares between them empty, makeMove of the king two files towards
\* that rook returns true, puts the king on g (c) and the rook on f (d), leaves
\* the e-square and the corner empty and records "O-O" ("O-O-O").
C1_CastlingExecutes ==
    \A id \in Live : \A color \in {"w", "b"} : \A rookFile \in {"h", "a"} :
        CastlingCase(Deref(id), color, rookFile)
            => CastlingDone(CastlingRequest(Deref(id), color, rookFile), color, rookFile)

\* ---- C2
Rejectable(game, from, to) ==
    \/ getPiece(game, from) = Null
    \/ getPiece(game, from)[1] # game.currentPlayer
    \/ ~Includes(getValidMoves(game, from), to)

NothingMutated(game, r) ==
    /\ ~r.ok
    /\ r.game.position = game.position
    /\ r.game.currentPlayer = game.currentPlayer
    /\ r.game.moveHistory = game.moveHistory

\* C2: a rejected move mutates nothing.  In every reachable state and for
\* every pair (from, to): if from is empty, or holds a piece of the side not to
\* move, or to is not among getValidMoves(from), then makeMove(from, to)
\* returns false and every square's occupant, the side to move and the
\* history are what they were.
C2_RejectedMoveMutatesNothing ==
    \A id \in Live : \A from \in CallSquares : \A to \in CallSquares :
        Rejectable(Deref(id), from, to)
            => NothingMutated(Deref(id), makeMove(Deref(id), from, to))

\* A call of makeMove was rejected in the middle of a game.
C2_Witness ==
    /\ ret.op = "makeMove"
    /\ ret.value = FALSE
    /\ Len(Deref(ret.obj).moveHistory) >= 2

\* ---- C3
Other(color) == IF color = "w" THEN "b" ELSE "w"

AppendedOne(game, from, to, r) ==
    r.ok =>
        /\ r.game.currentPlayer = Other(game.currentPlayer)
        /\ Len(r.game.moveHistory) = Len(game.moveHistory) + 1
        /\ SubSeq(r.game.moveHistory, 1, Len(game.moveHistory)) = game.moveHistory
        /\ LastMove(r.game).from = from
        /\ LastMove(r.game).to = to
        /\ LastMove(r.game).piece = getPiece(game, from)

\* C3: every successful makeMove flips the side to move and lengthens the
\* history by exactly one entry, appended at the end, whose from, to and piece
\* are those of the move just made; the earlier entries are unchanged.
C3_SuccessFlipsAndAppends ==
    \A id \in Live : \A from \in CallSquares : \A to \in CallSquares :
        AppendedOne(Deref(id), from, to, makeMove(Deref(id), from, to))

\* A successful move by Black, appended after earlier entries.
C3_Witness ==
    /\ ret.op = "makeMove"
    /\ ret.value = TRUE
    /\ Len(Deref(ret.obj).moveHistory) >= 2
    /\ Deref(ret.obj).currentPlayer = "w"

\* ---- C4
RoundTrip(game, from, to, r) ==
    r.ok => parseAlgebraicNotation(game, getLastMoveNotation(r.game)) = <<from, to>>

\* C4: SAN round trip.  For every reachable state S and every move (from, to)
\* that makeMove accepts in S, parseAlgebraicNotation of the notation the move
\* produced, evaluated on S, returns exactly (from, to).
C4_SanRoundTrip ==
    \A id \in Live : \A from \in CallSquares : \A to \in CallSquares :
        RoundTrip(Deref(id), from, to, makeMove(Deref(id), from, to))

\* A move that needed a disambiguator was made (two pieces reached the square).
C4_Witness ==
    /\ ret.op = "makeMove"
    /\ ret.value = TRUE
    /\ Len(LastMove(Deref(ret.obj)).notation) = 4
    /\ LastMove(Deref(ret.obj)).notation[1] = "N"
    /\ LastMove(Deref(ret.obj)).notation[2] # "x"

\* ---- C5
\* What a caller can observe of an object: getPiece on every square, the side
\* to move and the last move's notation.
Observed(id) ==
    [pieces |-> [s \in Squares |-> getPiece(Deref(id), s)],
     side |-> objs[id].currentPlayer,
     last |-> getLastMoveNotation(Deref(id))]

\* C5: clone independence.  Once c = g.clone() (or g = c.clone()) has been
\* made, no makeMove call on one object changes what the other object answers
\* to getPiece for any square, its side to move or its last-move notation.
C5_CloneIndependence ==
    [][\A id \in GameIds :
          (ret'.op = "makeMove" /\ ret'.obj # id /\ Constructed(id))
              => Observed(id)' = Observed(id)]_vars

\* The clone has been played further than the original.
C5_Witness ==
    /\ Constructed("c")
    /\ ret.op = "makeMove"
    /\ ret.obj = "c"
    /\ ret.value = TRUE
    /\ Len(Deref("g").moveHistory) >= 1
    /\ Len(Deref("c").moveHistory) > Len(Deref("g").moveHistory)

\* ---- C6
PawnTokens ==
    {sq : sq \in TokenSquares} \cup {<<f, "x">> \o sq : f \in FileSet, sq \in TokenSquares}

PieceTokens ==
    {<<p>> \o d \o x \o sq :
        p \in PieceLetters, d \in {<<>>} \cup {<<c>> : c \in FileSet \cup RankSet},
        x \in {<<>>, <<"x">>}, sq \in TokenSquares}

\* Tokens with trailing glyphs and blanks, as opening lines carry them.
GlyphTokens ==
    {<<"N", "f", "3", "+">>, <<"e", "4", "!", "?">>, <<"e", "x", "d", "5", "#">>,
     <<" ", "N", "c", "3", " ">>, <<"N", "b", "c", "3", "+", "+">>}

CastlingTokens ==
    {O_O, O_O_O, <<"0", "-", "0">>, <<"0", "-", "0", "-", "0">>, O_O \o <<"+">>}

NonCastlingTokens == PawnTokens \cup PieceTokens \cup GlyphTokens

Tokens == NonCastlingTokens \cup CastlingTokens

\* makeMove accepts the pair the parser returned.
Executable(game, move) == move # Null => makeMove(game, move[1], move[2]).ok

\* C6 (as claimed): every move returned by the parser is executable.  In every
\* reachable state and for every token, if parseAlgebraicNotation returns a
\* pair then makeMove of that pair on the same state returns true.
C6_ParsedMoveExecutable ==
    \A id \in Live : \A token \in Tokens :
        Executable(Deref(id), parseAlgebraicNotation(Deref(id), token))

\* C6 (amended): every move the parser returns for a token that is not a
\* castling token is executable: makeMove of the returned pair on the same
\* state returns true.
C6_NonCastlingParsedMoveExecutable ==
    \A id \in Live : \A token \in NonCastlingTokens :
        Executable(Deref(id), parseAlgebraicNotation(Deref(id), token))

\* A capture token with a glyph resolves to the move e4xd5, which is executable.
C6_Witness ==
    \E id \in Live :
        /\ parseAlgebraicNotation(Deref(id), <<"e", "x", "d", "5", "#">>)
               = Mv("e", 4, "d", 5)
        /\ makeMove(Deref(id), Sq("e", 4), Sq("d", 5)).ok

\* ---- C7
SamePosition(a, b) ==
    /\ \A s \in Squares : getPiece(Deref(a), s) = getPiece(Deref(b), s)
    /\ objs[a].currentPlayer = objs[b].currentPlayer

\* C7: parsing is a function of the position.  Two game objects with the same
\* occupant on every square and the same side to move return the same
\* parseAlgebraicNotation result for every token, however each was reached.
C7_ParseDependsOnPositionOnly ==
    \A a \in Live : \A b \in Live :
        SamePosition(a, b) =>
            \A token \in ProbeTokens :
                parseAlgebraicNotation(Deref(a), token)
                    = parseAlgebraicNotation(Deref(b), token)

\* ---- C8
ReadOps == {"getPiece", "getValidMoves", "parseAlgebraicNotation",
            "getLastMoveNotation", "clone"}

\* C8: game state is mutated only by makeMove.  A call of getPiece,
\* getValidMoves, parseAlgebraicNotation, getLastMoveNotation or clone leaves
\* the receiver's position, side to move and history as they were.
C8_OnlyMakeMoveMutates ==
    [][\A id \in GameIds :
          (ret'.op \in ReadOps /\ ret'.obj = id)
              => /\ Constructed(id)'
                 /\ Deref(id)' = Deref(id)]_vars

\* A read (a parse that resolved to a move) was called on a game in progress.
C8_Witness ==
    /\ ret.op = "parseAlgebraicNotation"
    /\ ret.value # Null
    /\ Len(Deref(ret.obj).moveHistory) >= 2

\* ---- C9
N_c3 == <<"N", "c", "3">>

\* White to move, white knights on b1 and d2, c3 empty.
KnightScenario(game) ==
    /\ game.currentPlayer = "w"
    /\ getPiece(game, Sq("b", 1)) = <<"w", "N">>
    /\ getPiece(game, Sq("d", 2)) = <<"w", "N">>
    /\ getPiece(game, Sq("c", 3)) = Null

\* C9 (as claimed): with White to move, white knights on b1 and d2 and c3
\* empty, makeMove("b1","c3") succeeds with a notation that carries a file or
\* rank disambiguator, not plain "Nc3".
C9_KnightScenarioDisambiguated ==
    \A id \in Live :
        KnightScenario(Deref(id)) =>
            /\ makeMove(Deref(id), Sq("b", 1), Sq("c", 3)).ok
            /\ getLastMoveNotation(makeMove(Deref(id), Sq("b", 1), Sq("c", 3)).game) # N_c3

\* The squares a knight's move away from c3, b1 apart.
KnightReachC3 ==
    {Sq("a", 2), Sq("a", 4), Sq("b", 5), Sq("d", 5), Sq("e", 4), Sq("e", 2), Sq("d", 1)}

\* White to move, a white knight on b1, c3 empty.
KnightOnB1(game) ==
    /\ game.currentPlayer = "w"
    /\ getPiece(game, Sq("b", 1)) = <<"w", "N">>
    /\ getPiece(game, Sq("c", 3)) = Null

KnightNotation(game, notation) ==
    IF \E s \in KnightReachC3 : getPiece(game, s) = <<"w", "N">>
    THEN \/ notation = <<"N", "b", "c", "3">>
         \/ notation = <<"N", "1", "c", "3">>
    ELSE notation = N_c3

\* C9 (amended): with White to move, a white knight on b1 and c3 empty,
\* makeMove("b1","c3") succeeds, and its notation carries a file or rank
\* disambiguator exactly when a second white knight stands a knight's move
\* from c3 (a2, a4, b5, d5, e4, e2, d1); a knight on d2 does not, so with the
\* second knight on d2 the notation is plain "Nc3".
C9_KnightDisambiguatedWhenShared ==
    \A id \in Live :
        KnightOnB1(Deref(id)) =>
            /\ makeMove(Deref(id), Sq("b", 1), Sq("c", 3)).ok
            /\ KnightNotation(Deref(id),
                   getLastMoveNotation(makeMove(Deref(id), Sq("b", 1), Sq("c", 3)).game))

\* The b1 knight went to c3 while the other knight stood on e2: "Nbc3".
C9_Witness ==
    /\ ret.op = "makeMove"
    /\ ret.value = TRUE
    /\ LastMove(Deref(ret.obj)).from = Sq("b", 1)
    /\ getPiece(Deref(ret.obj), Sq("e", 2)) = <<"w", "N">>
    /\ LastMove(Deref(ret.obj)).notation = <<"N", "b", "c", "3">>

\* ---- C10
\* The other pieces of the mover's colour and type that have `to` among their
\* getValidMoves.
Alternatives(game, from, to) ==
    {s \in Squares \ {from} :
        /\ getPiece(game, s) = getPiece(game, from)
        /\ Includes(getValidMoves(game, s), to)}

ExpectedDisambiguator(from, others) ==
    IF others = {} THEN <<>>
    ELSE IF \A s \in others : s[1] # from[1] THEN <<from[1]>>
    ELSE IF \A s \in others : s[2] # from[2] THEN <<from[2]>>
    ELSE from

PieceNotation(game, from, to, r) ==
    (r.ok /\ getPiece(game, from)[2] # "P" /\ getLastMoveNotation(r.game) \notin {O_O, O_O_O})
        => getLastMoveNotation(r.game)
             = <<getPiece(game, from)[2]>>
                  \o ExpectedDisambiguator(from, Alternatives(game, from, to))
                  \o (IF getPiece(game, to) # Null THEN <<"x">> ELSE <<>>) \o to

\* C10: the notation of a successful non-pawn, non-castling move is the type
\* letter, the disambiguator D, "x" iff the destination was occupied, and the
\* destination; D is empty iff no other piece of the same colour and type has
\* the destination among its getValidMoves, else the origin file if none of
\* those pieces stands on the origin file, else the origin rank if none stands
\* on the origin rank, else the origin square.
C10_PieceNotationRule ==
    \A id \in Live : \A from \in Squares : \A to \in Squares :
        PieceNotation(Deref(id), from, to, makeMove(Deref(id), from, to))

\* A knight move was made that needed the rank (another knight on its file).
C10_Witness ==
    /\ ret.op = "makeMove"
    /\ ret.value = TRUE
    /\ LastMove(Deref(ret.obj)).notation = <<"N", "1", "c", "3">>

\* ---- C11
PawnNotation(game, from, to, r) ==
    (r.ok /\ getPiece(game, from)[2] = "P")
        => /\ (getPiece(game, to) # Null) <=> (from[1] # to[1])
           /\ getLastMoveNotation(r.game)
                = (IF getPiece(game, to) # Null THEN <<from[1], "x">> \o to ELSE to)

\* From the start: e2-e4 gives "e4", e7-e5 gives "e5", g1-f3 gives "Nf3".
OpeningNotations(game) ==
    LET r1 == makeMove(game, Sq("e", 2), Sq("e", 4))
        r2 == makeMove(r1.game, Sq("e", 7), Sq("e", 5))
        r3 == makeMove(r2.game, Sq("g", 1), Sq("f", 3))
    IN /\ r1.ok /\ getLastMoveNotation(r1.game) = <<"e", "4">>
       /\ r2.ok /\ getLastMoveNotation(r2.game) = <<"e", "5">>
       /\ r3.ok /\ getLastMoveNotation(r3.game) = <<"N", "f", "3">>

\* C11: pawn SAN rule.  The notation of every successful pawn move is the
\* origin file, "x" and the destination when the destination was occupied
\* before the move, which is exactly when the pawn changes file, and the bare
\* destination otherwise; from the start e2-e4, e7-e5, g1-f3 each return true
\* with notations "e4", "e5", "Nf3".
C11_PawnNotationRule ==
    \A id \in Live :
        /\ \A from \in Squares : \A to \in Squares :
               PawnNotation(Deref(id), from, to, makeMove(Deref(id), from, to))
        /\ Deref(id) = NewGame => OpeningNotations(Deref(id))

\* A pawn has captured (e4xd5) after pawn pushes were made.
C11_Witness ==
    /\ ret.op = "makeMove"
    /\ ret.value = TRUE
    /\ Len(Deref(ret.obj).moveHistory) = 3
    /\ Deref(ret.obj).moveHistory[1].notation = <<"e", "4">>
    /\ LastMove(Deref(ret.obj)).notation = <<"e", "x", "d", "5">>

\* ---- C12
\* The en-passant pattern for the side to move: its pawn on `from` (fifth rank
\* for White, fourth for Black), `to` the empty square diagonally ahead, and an
\* opposing pawn beside the capturing pawn on the file of `to`.
EnPassantPattern(game, from, to) ==
    LET color == game.currentPlayer
        pawnRank == IF color = "w" THEN "5" ELSE "4"
        targetRank == IF color = "w" THEN "6" ELSE "3"
    IN /\ getPiece(game, from) = <<color, "P">>
       /\ from[2] = pawnRank
       /\ to[2] = targetRank
       /\ Abs(IndexOf(FileChars, from[1]) - IndexOf(FileChars, to[1])) = 1
       /\ getPiece(game, to) = Null
       /\ getPiece(game, <<to[1], pawnRank>>) = <<Other(color), "P">>

\* C12: en-passant resolution in parsing.  In every reachable state with the
\* en-passant pattern (a pawn of the side to move, an opposing pawn beside it
\* on the target's file, the target empty), parseAlgebraicNotation of the
\* pawn-capture token origin-file + "x" + target returns that pawn's move.
C12_EnPassantTokenResolves ==
    \A id \in Live : \A from \in Squares : \A to \in Squares :
        EnPassantPattern(Deref(id), from, to)
            => parseAlgebraicNotation(Deref(id), <<from[1], "x">> \o to) = <<from, to>>

\* ---- C13
\* The non-castling tokens without "x".
PlainTokens == {token \in NonCastlingTokens : ~Includes(token, "x")}

EmptyDestination(game, move) == move # Null => getPiece(game, move[2]) = Null

\* C13: capture semantics of parsing.  In every reachable state and for every
\* non-castling token without "x", a non-null parse result has an empty
\* destination square (so such a token yields null when the pieces that reach
\* its destination would capture there).
C13_PlainTokenNeverCaptures ==
    \A id \in Live : \A token \in PlainTokens :
        EmptyDestination(Deref(id), parseAlgebraicNotation(Deref(id), token))

\* A knight can take on d5: "Nxd5" resolves and "Nd5" yields null.
C13_Witness ==
    \E id \in Live :
        /\ parseAlgebraicNotation(Deref(id), <<"N", "x", "d", "5">>) = Mv("c", 3, "d", 5)
        /\ parseAlgebraicNotation(Deref(id), <<"N", "d", "5">>) = Null

\* ---- C14
HomeRank(game) == IF game.currentPlayer = "w" THEN 1 ELSE 8

CastlingParse(game) ==
    /\ \A token \in {O_O, <<"0", "-", "0">>} :
          parseAlgebraicNotation(game, token) = Mv("e", HomeRank(game), "g", HomeRank(game))
    /\ \A token \in {O_O_O, <<"0", "-", "0", "-", "0">>} :
          parseAlgebraicNotation(game, token) = Mv("e", HomeRank(game), "c", HomeRank(game))

\* C14: castling tokens are resolved without consulting the board.  In every
\* reachable state "O-O" and "0-0" parse to e1-g1 when White is to move and to
\* e8-g8 when Black is to move, and "O-O-O" and "0-0-0" to e1-c1 and e8-c8,
\* whatever stands on those squares.
C14_CastlingTokensIgnoreBoard ==
    \A id \in Live : CastlingParse(Deref(id))

\* Black is to move in a game in progress with g8 and c8 still occupied, so
\* the pairs the castling tokens resolve to are not moves of the king.
C14_Witness ==
    \E id \in Live :
        /\ Deref(id).currentPlayer = "b"
        /\ Len(Deref(id).moveHistory) >= 3
        /\ getPiece(Deref(id), Sq("g", 8)) # Null
        /\ getPiece(Deref(id), Sq("c", 8)) # Null
        /\ ~makeMove(Deref(id), Sq("e", 8), Sq("g", 8)).ok

\* ---- C15
NotMovable(game, square) ==
    \/ getPiece(game, square) = Null
    \/ getPiece(game, square)[1] # game.currentPlayer

\* C15: in every reachable state getValidMoves(square) is empty when the
\* square is empty (or is no square of the board) or holds a piece of the side
\* not to move, so only pieces of the side to move have a non-empty list.
C15_OnlySideToMoveHasMoves ==
    \A id \in Live : \A square \in CallSquares :
        NotMovable(Deref(id), square) => getValidMoves(Deref(id), square) = <<>>

\* Black is to move: the white pawn on e4 has no moves listed although e5 is
\* empty, and the black pawn on e7 has.
C15_Witness ==
    \E id \in Live :
        /\ Deref(id).currentPlayer = "b"
        /\ getPiece(Deref(id), Sq("e", 4)) = <<"w", "P">>
        /\ getPiece(Deref(id), Sq("e", 5)) = Null
        /\ getValidMoves(Deref(id), Sq("e", 4)) = <<>>
        /\ getValidMoves(Deref(id), Sq("e", 7)) # <<>>

\* ---- C16
WellFormedMove(game, square, move) ==
    /\ move \in Squares
    /\ move # square
    /\ \/ getPiece(game, move) = Null
       \/ getPiece(game, move)[1] # getPiece(game, square)[1]

WellFormedMoves(game, square, moves) ==
    \A i \in 1..Len(moves) : WellFormedMove(game, square, moves[i])

\* C16: in every reachable state and for every square, each element of
\* getValidMoves(square) is a square a1..h8, differs from the origin and is
\* not occupied by a piece of the moving piece's colour.
C16_ValidMovesWellFormed ==
    \A id \in Live : \A square \in CallSquares :
        WellFormedMoves(Deref(id), square, getValidMoves(Deref(id), square))

\* The rook on h3 can take on h7 and its list stops short of its own pawn on h2.
C16_Witness ==
    \E id \in Live :
        /\ getPiece(Deref(id), Sq("h", 3)) = <<"w", "R">>
        /\ Includes(getValidMoves(Deref(id), Sq("h", 3)), Sq("h", 7))
        /\ ~Includes(getValidMoves(Deref(id), Sq("h", 3)), Sq("h", 2))

\* ---- C17
\* White is to move exactly when the history has even length, and the entries
\* record white and black pieces in turn, White first.
TurnMatchesHistory(game) ==
    /\ (game.currentPlayer = "w") <=> (Len(game.moveHistory) % 2 = 0)
    /\ \A i \in 1..Len(game.moveHistory) :
          game.moveHistory[i].piece[1] = (IF i % 2 = 1 THEN "w" ELSE "b")

\* A makeMove call lengthens the history by one when it returns true and by
\* nothing when it returns false.
CountsAcceptedCall(id) ==
    Len(Deref(id).moveHistory)'
        = Len(Deref(id).moveHistory) + (IF ret'.value THEN 1 ELSE 0)

\* C17: turn and history invariant.  A new game has an empty history; every
\* makeMove call adds one entry exactly when it returns true, so the history
\* length is the number of calls that returned true; and in every reachable
\* state White is to move exactly when the history length is even and the
\* i-th entry (0-based) records a white piece for even i, a black one for odd i.
C17_TurnAndHistory ==
    /\ \A id \in Live : Deref(id).moveHistory = <<>>
    /\ [](\A id \in Live : TurnMatchesHistory(Deref(id)))
    /\ [][\A id \in GameIds :
             (ret'.op = "makeMove" /\ ret'.obj = id) => CountsAcceptedCall(id)]_vars

\* A call was rejected with Black to move after five accepted moves.
C17_Witness ==
    /\ ret.op = "makeMove"
    /\ ret.value = FALSE
    /\ Len(Deref(ret.obj).moveHistory) = 5
    /\ Deref(ret.obj).currentPlayer = "b"

\* ---- C18
\* The list `moves` holds exactly the squares of `expected`, each once.
ExactlyMoves(moves, expected) ==
    /\ {moves[i] : i \in 1..Len(moves)} = expected
    /\ Len(moves) = Cardinality(expected)

\* What the claim lists for a square of the starting position.
StartingMoves(square) ==
    IF square[2] = "2" THEN {<<square[1], "3">>, <<square[1], "4">>}
    ELSE IF square = Sq("b", 1) THEN {Sq("a", 3), Sq("c", 3)}
    ELSE IF square = Sq("g", 1) THEN {Sq("f", 3), Sq("h", 3)}
    ELSE {}

\* C18: starting-position move lists.  In a freshly constructed game
\* getValidMoves returns exactly the one- and two-square advances for each
\* white pawn, exactly a3,c3 and f3,h3 for the white knights, and the empty
\* list for every other white piece, every black piece and every empty square.
C18_StartingMoveLists ==
    \A id \in Live :
        Deref(id) = NewGame =>
            \A square \in Squares :
                ExactlyMoves(getValidMoves(Deref(id), square), StartingMoves(square))

\* The freshly constructed game, before any call.
C18_Witness ==
    /\ ret.op = "new"
    /\ Deref("g") = NewGame
    /\ getValidMoves(Deref("g"), Sq("e", 2)) = <<Sq("e", 3), Sq("e", 4)>>

\* ---- C19
\* The session's currentMoveIndex, or -1 without a session.
MoveIndexOf(st) ==
    IF st.practiceSession = <<>> THEN -1 ELSE st.practiceSession[1].currentMoveIndex

\* The token the session expects next (Null when the session is completed or
\* its variation is played out).
ExpectedToken(st) ==
    LET ps == st.practiceSession[1]
        moves == ps.variations[ps.currentVariationIndex + 1].moves
    IN IF ps.completed \/ ps.currentMoveIndex >= Len(moves) THEN Null
       ELSE moves[ps.currentMoveIndex + 1]

\* The move is legal and its notation is the expected token, glyphs apart.
IsExpectedMove(st, r) ==
    /\ r.ok
    /\ ExpectedToken(st) # Null
    /\ normalizeMove(getLastMoveNotation(r.game)) = normalizeMove(ExpectedToken(st))

\* What a practice-mode handleMove may change, by the trial move's result `r`.
SpeculationLeavesNoTrace(r) ==
    /\ ~r.ok => (trainer' = trainer /\ timers' = timers)
    /\ (r.ok /\ ~IsExpectedMove(trainer, r)) =>
          /\ trainer'.game = trainer.game
          /\ trainer'.gameHistory = trainer.gameHistory
          /\ MoveIndexOf(trainer') = MoveIndexOf(trainer)

\* C19: speculative practice verification has no side effects.  In practice
\* mode a handleMove call with a legal move whose notation differs from the
\* expected token leaves the displayed game, the displayed move list and
\* currentMoveIndex unchanged, and a call with an illegal move leaves the
\* whole session (accuracy, attempts, hint, pending timers) unchanged.
C19_PracticeTrialHasNoSideEffects ==
    [][(event'.op = "handleMove" /\ trainer.practiceSession # <<>>)
          => SpeculationLeavesNoTrace(makeMove(trainer.game, event'.from, event'.to))]_vars

\* A wrong legal move was tried twice in practice: the attempts are counted
\* and the board still shows the position the move was tried on.
C19_Witness ==
    /\ event.op = "handleMove"
    /\ trainer.practiceSession # <<>>
    /\ trainer.practiceSession[1].attempts = 2
    /\ makeMove(trainer.game, event.from, event.to).ok
    /\ ~IsExpectedMove(trainer, makeMove(trainer.game, event.from, event.to))

\* ---- C20
\* The makeComputerMove call a timer callback makes: <<currentGame, token>>,
\* or Null when makeOpponentMove returns without calling it.
ComputerCall(timer) ==
    IF timer.fn = "makeComputerMove" THEN <<timer.game, timer.moveNotation>>
    ELSE IF timer.practiceSession = <<>> THEN Null
    ELSE IF ExpectedToken(timer) = Null THEN Null
    ELSE <<timer.game, ExpectedToken(timer)>>

\* The token does not resolve to a move makeMove accepts on currentGame.
Unresolved(currentGame, moveData) ==
    \/ moveData = Null
    \/ ~makeMove(currentGame, moveData[1], moveData[2]).ok

NotExecuted(call) ==
    (call # Null /\ Unresolved(call[1], parseAlgebraicNotation(call[1], call[2])))
        => /\ trainer'.game = trainer.game
           /\ trainer'.gameHistory = trainer.gameHistory
           /\ MoveIndexOf(trainer') = MoveIndexOf(trainer)

\* C20: the caller never executes an unresolved token.  When
\* parseAlgebraicNotation returns null for the token makeComputerMove is
\* given, or makeMove rejects the parsed move, the callback leaves the
\* displayed game, the displayed move list and currentMoveIndex unchanged.
C20_UnresolvedTokenNotExecuted ==
    [][event'.op \in {"makeComputerMove", "makeOpponentMove"}
          => NotExecuted(ComputerCall(event'.timer))]_vars

\* makeComputerMove ran in a session on a token that parses ("O-O" resolves to
\* e1-g1) but that makeMove rejects.
C20_Witness ==
    /\ event.op = "makeComputerMove"
    /\ trainer.practiceSession # <<>>
    /\ parseAlgebraicNotation(event.timer.game, event.timer.moveNotation) # Null
    /\ Unresolved(event.timer.game,
                  parseAlgebraicNotation(event.timer.game, event.timer.moveNotation))

\* makeComputerMove ran in a session on a token no piece can play: null.
C20_WitnessNull ==
    /\ event.op = "makeComputerMove"
    /\ trainer.practiceSession # <<>>
    /\ parseAlgebraicNotation(event.timer.game, event.timer.moveNotation) = Null

\* ---- C21
\* The square df files and dr ranks away from `square`, Null off the board.
Step(square, df, dr) ==
    LET f == IndexOf(FileChars, square[1]) + df
        r == ParseInt(square[2]) + dr
    IN IF f \in 0..7 /\ r \in 1..8 THEN Sq(FileChars[f + 1], r) ELSE Null

\* The squares the rule gives the pawn on `square`: one step forward if empty,
\* two steps from the colour's starting rank if both are empty, and each
\* forward diagonal that holds an opposing piece.
PawnTargets(game, square) ==
    LET color == getPiece(game, square)[1]
        dir == IF color = "w" THEN 1 ELSE -1
        home == IF color = "w" THEN "2" ELSE "7"
        one == Step(square, 0, dir)
        two == Step(square, 0, 2 * dir)
        free(sq) == sq # Null /\ getPiece(game, sq) = Null
        enemy(sq) == sq # Null /\ getPiece(game, sq) # Null /\ getPiece(game, sq)[1] # color
    IN {sq \in {one} : free(one)}
        \cup {sq \in {two} : square[2] = home /\ free(one) /\ free(two)}
        \cup {sq \in {Step(square, -1, dir), Step(square, 1, dir)} : enemy(sq)}

\* The empty squares diagonally ahead of the pawn on `square`.
EmptyDiagonals(game, square) ==
    LET dir == IF getPiece(game, square)[1] = "w" THEN 1 ELSE -1
    IN {sq \in {Step(square, -1, dir), Step(square, 1, dir)} :
           sq # Null /\ getPiece(game, sq) = Null}

PawnRule(game, square) ==
    getPiece(game, square) = <<game.currentPlayer, "P">> =>
        /\ ExactlyMoves(getValidMoves(game, square), PawnTargets(game, square))
        /\ \A to \in EmptyDiagonals(game, square) :
              /\ ~Includes(getValidMoves(game, square), to)
              /\ ~makeMove(game, square, to).ok

\* C21: pawn generation.  In every reachable state the getValidMoves of a pawn
\* of the side to move is exactly: the square one step forward if empty; the
\* square two steps forward if the pawn is on its colour's starting rank and
\* both squares are empty; and each forward-diagonal square that holds an
\* opposing piece.  It never contains an empty diagonal square, so makeMove
\* accepts no en-passant move.
C21_PawnMoves ==
    \A id \in Live : \A square \in Squares : PawnRule(Deref(id), square)

\* White's pawn on e5 beside the black pawn that has just stepped d7-d5: d6 is
\* empty, the call e5-d6 was refused, and the pawn's only move is e6.
C21_Witness ==
    /\ ret.op = "makeMove"
    /\ ret.value = FALSE
    /\ EnPassantPattern(Deref(ret.obj), Sq("e", 5), Sq("d", 6))
    /\ LastMove(Deref(ret.obj)).notation = <<"d", "5">>
    /\ getValidMoves(Deref(ret.obj), Sq("e", 5)) = <<Sq("e", 6)>>

\* ---- C22
Orthogonals == {<<0, 1>>, <<0, -1>>, <<1, 0>>, <<-1, 0>>}

Diagonals == {<<1, 1>>, <<1, -1>>, <<-1, 1>>, <<-1, -1>>}

\* The ray directions of a sliding piece type.
RayDirs(type) ==
    CASE type = "R" -> Orthogonals
      [] type = "B" -> Diagonals
      [] type = "Q" -> Orthogonals \cup Diagonals
      [] OTHER -> {}

\* The squares reached from `from` along direction d over empty squares only:
\* those n steps away with every square strictly between empty.
ClearRay(game, from, d) ==
    {Step(from, n * d[1], n * d[2]) : n \in {m \in 1..7 :
        /\ Step(from, m * d[1], m * d[2]) # Null
        /\ \A k \in 1..(m - 1) : getPiece(game, Step(from, k * d[1], k * d[2])) = Null}}

\* The squares the rule gives the sliding piece on `square`: on one of its
\* rays, nothing between, and empty or held by an opposing piece.
SlideTargets(game, square) ==
    {to \in UNION {ClearRay(game, square, d) : d \in RayDirs(getPiece(game, square)[2])} :
        \/ getPiece(game, to) = Null
        \/ getPiece(game, to)[1] # getPiece(game, square)[1]}

IsSlider(game, square) ==
    /\ getPiece(game, square) # Null
    /\ getPiece(game, square)[2] \in {"R", "B", "Q"}

\* The squares a move list holds.
ListedSquares(moves) == {moves[i] : i \in 1..Len(moves)}

\* C22 as stated, for every rook, bishop and queen on the board: a square is in
\* getValidMoves exactly when it lies on one of the piece's rays, every square
\* strictly between is empty, and the destination is empty or holds an opposing
\* piece.
C22_SlidersFollowRays ==
    \A id \in Live : \A square \in Squares :
        IsSlider(Deref(id), square) =>
            ListedSquares(getValidMoves(Deref(id), square)) = SlideTargets(Deref(id), square)

SliderRule(game, square) ==
    IF getPiece(game, square)[1] = game.currentPlayer
    THEN ExactlyMoves(getValidMoves(game, square), SlideTargets(game, square))
    ELSE getValidMoves(game, square) = <<>>

\* C22, amended: for a rook, bishop or queen of the side to move a square is
\* in getValidMoves (once) exactly when it lies on one of the piece's rays,
\* every square strictly between is empty, and the destination is empty or
\* holds an opposing piece; for one of the side not to move the list is empty.
C22_SlidersToMoveFollowRays ==
    \A id \in Live : \A square \in Squares :
        IsSlider(Deref(id), square) => SliderRule(Deref(id), square)

\* White to move with the rook on h3: its list runs along the third rank and
\* up the h-file to the pawn on h7, which it may take, and no further.
C22_Witness ==
    \E id \in Live :
        /\ Deref(id).currentPlayer = "w"
        /\ getPiece(Deref(id), Sq("h", 3)) = <<"w", "R">>
        /\ getPiece(Deref(id), Sq("h", 7)) = <<"b", "P">>
        /\ Includes(getValidMoves(Deref(id), Sq("h", 3)), Sq("h", 7))
        /\ Includes(getValidMoves(Deref(id), Sq("h", 3)), Sq("a", 3))
        /\ ~Includes(getValidMoves(Deref(id), Sq("h", 3)), Sq("h", 8))

\* ---- C23
\* The king on `from` is asked to move two files (the castling branch).
TwoFileKingMove(game, from, to) ==
    /\ getPiece(game, from) # Null
    /\ getPiece(game, from)[2] = "K"
    /\ Abs(IndexOf(FileChars, from[1]) - IndexOf(FileChars, to[1])) = 2

\* What a successful ordinary move changes and what it leaves.
MoveFrame(game, from, to, r) ==
    (r.ok /\ ~TwoFileKingMove(game, from, to)) =>
        /\ getPiece(r.game, from) = Null
        /\ getPiece(r.game, to) = getPiece(game, from)
        /\ \A s \in Squares \ {from, to} : getPiece(r.game, s) = getPiece(game, s)
        /\ LastMove(r.game).captured = getPiece(game, to)

\* C23: frame of a successful ordinary move.  A successful makeMove that is
\* not a two-file king move empties the origin square, puts the moved piece
\* (colour and type unchanged) on the destination, leaves every other square's
\* occupant as it was, and records as `captured` the destination's occupant
\* before the move.
C23_OrdinaryMoveFrame ==
    \A id \in Live : \A from \in CallSquares : \A to \in CallSquares :
        MoveFrame(Deref(id), from, to, makeMove(Deref(id), from, to))

\* A capture was just made: the entry records the piece taken, the capturing
\* piece stands on the destination and its origin is empty.
C23_Witness ==
    /\ ret.op = "makeMove"
    /\ ret.value = TRUE
    /\ LastMove(Deref(ret.obj)).captured # Null
    /\ getPiece(Deref(ret.obj), LastMove(Deref(ret.obj)).to) = LastMove(Deref(ret.obj)).piece
    /\ getPiece(Deref(ret.obj), LastMove(Deref(ret.obj)).from) = Null

\* ---- C24
\* The piece on `from` attacks the opposing king on `to`.
AttacksKing(game, from, to) ==
    /\ getPiece(game, to) # Null
    /\ getPiece(game, to)[2] = "K"
    /\ Includes(getValidMoves(game, from), to)

HasKing(game, color) == \E s \in Squares : getPiece(game, s) = <<color, "K">>

\* Some move is accepted in `game`.
PlayContinues(game) ==
    \E from \in Squares :
        /\ getValidMoves(game, from) # <<>>
        /\ makeMove(game, from, getValidMoves(game, from)[1]).ok

\* The king is taken like any piece, and the side that lost it is to move and
\* has moves.
KingTaken(game, to, r) ==
    /\ r.ok
    /\ LastMove(r.game).captured = getPiece(game, to)
    /\ ~HasKing(r.game, getPiece(game, to)[1])
    /\ r.game.currentPlayer = getPiece(game, to)[1]
    /\ PlayContinues(r.game)

Notations(game) == [i \in 1..Len(game.moveHistory) |-> game.moveHistory[i].notation]

\* The claim's example: after e2-e4, f7-f6, d1-h5, a7-a6 the move h5-e8 is
\* accepted with notation "Qxe8".
ScholarsCapture(game) ==
    Notations(game) = <<<<"e", "4">>, <<"f", "6">>, <<"Q", "h", "5">>, <<"a", "6">>>> =>
        /\ AttacksKing(game, Sq("h", 5), Sq("e", 8))
        /\ getLastMoveNotation(makeMove(game, Sq("h", 5), Sq("e", 8)).game)
              = <<"Q", "x", "e", "8">>

\* C24: no king-safety filtering.  In every reachable state makeMove accepts
\* the capture of the opposing king by any piece whose move list reaches it,
\* leaving that side without a king and to move, and play continues; after
\* e2-e4, f7-f6, d1-h5, a7-a6 the move h5-e8 returns true with notation "Qxe8".
C24_KingCaptureAccepted ==
    \A id \in Live :
        /\ ScholarsCapture(Deref(id))
        /\ \A from \in Squares : \A to \in Squares :
              AttacksKing(Deref(id), from, to)
                  => KingTaken(Deref(id), to, makeMove(Deref(id), from, to))

\* The queen took the king on e8 and Black, without a king, has made a move
\* since.
C24_Witness ==
    /\ ret.op = "makeMove"
    /\ ret.value = TRUE
    /\ Len(Deref(ret.obj).moveHistory) = 6
    /\ Deref(ret.obj).moveHistory[5].notation = <<"Q", "x", "e", "8">>
    /\ Deref(ret.obj).moveHistory[5].captured = <<"b", "K">>
    /\ ~HasKing(Deref(ret.obj), "b")

\* ---- C25
PieceKinds == {<<c, t>> : c \in {"w", "b"}, t \in {"K", "Q", "R", "B", "N", "P"}}

\* The number of pieces of one colour and type on the board.
Count(game, kind) == Cardinality({s \in Squares : getPiece(game, s) = kind})

Total(game) == Cardinality({s \in Squares : getPiece(game, s) # Null})

\* What one makeMove call does to the piece counts.
Conserved(game, from, to, r) ==
    IF r.ok
    THEN /\ \A kind \in PieceKinds : Count(r.game, kind) <= Count(game, kind)
         /\ getPiece(r.game, to) = getPiece(game, from)
         /\ Total(r.game) = Total(game) - (IF getPiece(game, to) # Null THEN 1 ELSE 0)
    ELSE r.game.position = game.position

\* C25: piece conservation.  Over any sequence of makeMove calls the number of
\* pieces of each colour and type never exceeds that of the starting position
\* and never increases; the moved piece keeps its type, also a pawn that
\* reaches the last rank (no promotion); a successful move lowers the total
\* by exactly one when the destination was occupied and by zero otherwise, and
\* a failed move leaves the board unchanged.
C25_PieceConservation ==
    /\ \A kind \in PieceKinds : Count(Deref("g"), kind) <= Count(NewGame, kind)
    /\ \A from \in CallSquares : \A to \in CallSquares :
          Conserved(Deref("g"), from, to, makeMove(Deref("g"), from, to))

\* A white pawn has taken its way to the eighth rank and stands there as a
\* pawn, without a move; two black pieces are gone.
C25_Witness ==
    /\ ret.op = "makeMove"
    /\ ret.value = TRUE
    /\ LastMove(Deref("g")).piece = <<"w", "P">>
    /\ LastMove(Deref("g")).to[2] = "8"
    /\ getPiece(Deref("g"), LastMove(Deref("g")).to) = <<"w", "P">>
    /\ Count(Deref("g"), <<"w", "Q">>) = 1
    /\ Total(Deref("g")) = 30

\* ---- C26
\* The notation (glyphs stripped) is a castling token or has one of the eight
\* shapes parseAlgebraicNotation tests for.
Recognised(notation) ==
    \/ notation \in {O_O, O_O_O}
    \/ ParseShape(Trim(StripGlyphs(notation))) # Null

\* The full-origin-square form: piece letter, origin square, optional "x",
\* destination square.
FullSquareForm(notation) ==
    /\ Len(notation) \in {5, 6}
    /\ notation[1] \in PieceLetters
    /\ SubSeq(notation, 2, 3) \in Squares
    /\ SubSeq(notation, Len(notation) - 1, Len(notation)) \in Squares

NotationParsable(notation) == Recognised(notation) /\ ~FullSquareForm(notation)

\* No more than two pieces of one colour and one non-pawn type.
AtMostOneOther(game) ==
    \A kind \in PieceKinds : kind[2] # "P" => Count(game, kind) <= 2

\* C26: every notation recorded in the history of a reachable state, and the
\* notation of every move makeMove would accept there, matches one of the
\* shapes parseAlgebraicNotation recognises; the full-origin-square form
\* ("Nb1c3") is never generated, and at most one other piece of the moving
\* piece's colour and type exists.
C26_RecordedNotationsParsable ==
    \A id \in Live :
        /\ AtMostOneOther(Deref(id))
        /\ \A i \in 1..Len(Deref(id).moveHistory) :
              NotationParsable(Deref(id).moveHistory[i].notation)
        /\ \A from \in Squares : \A i \in 1..Len(getValidMoves(Deref(id), from)) :
              NotationParsable(getLastMoveNotation(
                  makeMove(Deref(id), from, getValidMoves(Deref(id), from)[i]).game))

\* A knight move that needed its rank ("N1c3": the other knight stands on the
\* same file) is in the history.
C26_Witness ==
    /\ ret.op = "makeMove"
    /\ ret.value = TRUE
    /\ Len(LastMove(Deref(ret.obj)).notation) = 4
    /\ LastMove(Deref(ret.obj)).notation[1] = "N"
    /\ LastMove(Deref(ret.obj)).notation[2] \in RankSet
    /\ Count(Deref(ret.obj), <<"w", "N">>) = 2

\* ---- C27
\* The moves of the session's current variation.
CurrentMoves(st) ==
    st.practiceSession[1].variations[st.practiceSession[1].currentVariationIndex + 1].moves

\* The session's index counts the moves on the displayed board, stays within
\* the variation, and so names a token of the side to move.
InStep(st) ==
    st.practiceSession # <<>> =>
        /\ MoveIndexOf(st) = Len(st.game.moveHistory)
        /\ MoveIndexOf(st) <= Len(CurrentMoves(st))
        /\ (MoveIndexOf(st) % 2 = 0) <=> (st.game.currentPlayer = "w")

\* The delayed opponent step works on what is displayed when it runs: the
\* session's present index and the game that includes the user's move.
OpponentStepOnDisplayedGame ==
    trainer' = makeOpponentMove(trainer, trainer.practiceSession, trainer.game).trainer

\* C27: practice position and line stay in step.  Whenever no handler or timer
\* callback is running, the session's currentMoveIndex equals the number of
\* moves applied to the displayed game and never exceeds the length of the
\* current variation, so the expected token is a move of the side to move; and
\* the delayed opponent step plays the token that follows the user's move on
\* the position that includes the user's move.
C27_PositionAndLineInStep ==
    /\ [](InStep(trainer))
    /\ [][event'.op = "makeOpponentMove" => OpponentStepOnDisplayedGame]_vars

\* ---- C28
\* The last token of variation k of the running session has been played.
PlayedOut(k) ==
    /\ trainer.practiceSession # <<>>
    /\ trainer.practiceSession[1].currentVariationIndex = k
    /\ ~trainer.practiceSession[1].completed
    /\ MoveIndexOf(trainer) >= Len(CurrentMoves(trainer))

\* The session has gone on from variation k: the next variation on a fresh
\* board, or completed after the last one (or the practice was stopped).
MovedOn(k) ==
    \/ trainer.practiceSession = <<>>
    \/ /\ trainer.practiceSession # <<>>
       /\ IF k + 1 < Len(trainer.practiceSession[1].variations)
          THEN /\ trainer.practiceSession[1].currentVariationIndex = k + 1
               /\ MoveIndexOf(trainer) = 0
               /\ trainer.game = NewGame
               /\ trainer.gameHistory = <<>>
          ELSE trainer.practiceSession[1].completed

\* C28: practice sessions complete.  With a user who plays every expected move
\* and timers that all fire, once the last token of a variation has been
\* played the session advances to the next variation (fresh board,
\* currentMoveIndex 0) and, after the last variation, reaches completed = true.
C28_SessionsComplete ==
    \A k \in {0, 1} : PlayedOut(k) ~> MovedOn(k)

\* ---- C29
\* What stopPractice leaves displayed.
Stopped(st) ==
    /\ st.game = NewGame
    /\ st.gameHistory = <<>>
    /\ st.practiceSession = <<>>

\* A timer callback runs while no practice is on.  Every timer is set in a
\* practice and a practice ends by stopPractice only, so the timer was
\* scheduled before the stop.
LateCallback ==
    /\ trainer.practiceSession = <<>>
    /\ event'.op \in {"makeOpponentMove", "makeComputerMove"}

\* C29: stopping practice is final.  After stopPractice the displayed game is
\* the standard starting position with an empty move list and no practice
\* session, and no timer callback scheduled before the stop (opponent reply or
\* computer first move) changes the displayed game or move list afterwards.
C29_StopIsFinal ==
    /\ [](event.op = "stopPractice" => Stopped(trainer))
    /\ [][LateCallback => /\ trainer'.game = trainer.game
                          /\ trainer'.gameHistory = trainer.gameHistory]_vars

\* ---- C30
\* C30: the displayed move list mirrors the engine.  After any sequence of user
\* moves, timer callbacks, startPractice and stopPractice, gameHistory equals
\* the sequence of notations of the moves in the displayed game's history
\* (same length, same order, no duplicates).
C30_MoveListMirrorsGame ==
    trainer.gameHistory = Notations(trainer.game)

\* ---- C31
\* accuracy.correct and accuracy.total of the running session.
Accuracy(st) == st.practiceSession[1].accuracy

CountersInRange(st) ==
    st.practiceSession # <<>> =>
        /\ 0 <= Accuracy(st).correct
        /\ Accuracy(st).correct <= Accuracy(st).total

\* The step leaves the session running with both counters as they were.
CountersKept ==
    /\ trainer'.practiceSession # <<>>
    /\ Accuracy(trainer') = Accuracy(trainer)

\* The step raises total by one, and correct by one or not at all.
CountersRaised(byCorrect) ==
    /\ trainer'.practiceSession # <<>>
    /\ Accuracy(trainer').total = Accuracy(trainer).total + 1
    /\ Accuracy(trainer').correct = Accuracy(trainer).correct + byCorrect

\* The notation of the move just made on `game` is `token`, trailing glyphs
\* apart.
SameSan(game, token) ==
    StripGlyphs(getLastMoveNotation(game)) = StripGlyphs(token)

\* The user's move in practice, by the trial move's result `r`: every legal
\* move is counted.
EveryLegalMoveCounted(r) ==
    IF r.ok
    THEN CountersRaised(IF ExpectedToken(trainer) # Null
                           /\ SameSan(r.game, ExpectedToken(trainer)) THEN 1 ELSE 0)
    ELSE CountersKept

\* The same, a legal move being counted while the variation has a token left.
LegalMoveCountedWhileExpected(r) ==
    IF r.ok /\ ExpectedToken(trainer) # Null
    THEN CountersRaised(IF SameSan(r.game, ExpectedToken(trainer)) THEN 1 ELSE 0)
    ELSE CountersKept

UserMoveInPractice == event'.op = "handleMove" /\ trainer.practiceSession # <<>>

\* A timer callback runs during a practice.
OpponentMoveInPractice ==
    /\ event'.op \in {"makeOpponentMove", "makeComputerMove"}
    /\ trainer.practiceSession # <<>>

\* C31 as stated: accuracy bookkeeping.  In every session state
\* 0 <= correct <= total; each legal user move in practice raises total by
\* exactly one and correct by one iff its notation equals the expected token,
\* trailing +#!? glyphs stripped; opponent moves and illegal moves change
\* neither counter.
C31_AccuracyBookkeeping ==
    /\ [](CountersInRange(trainer))
    /\ [][/\ UserMoveInPractice =>
                EveryLegalMoveCounted(makeMove(trainer.game, event'.from, event'.to))
          /\ OpponentMoveInPractice => CountersKept]_vars

\* C31 as amended: a legal user move is counted while the current variation
\* still has an expected token; once the variation is played out (or the
\* session completed) a legal move is ignored like an illegal one.
C31_AccuracyWhileExpected ==
    /\ [](CountersInRange(trainer))
    /\ [][/\ UserMoveInPractice =>
                LegalMoveCountedWhileExpected(makeMove(trainer.game, event'.from, event'.to))
          /\ OpponentMoveInPractice => CountersKept]_vars

\* After a wrong move, e2-e4 was counted as correct on the token "e4+".
C31_Witness ==
    /\ event.op = "handleMove"
    /\ event.to = Sq("e", 4)
    /\ trainer.practiceSession # <<>>
    /\ trainer.practiceSession[1].variations = <<KingsPawn>>
    /\ MoveIndexOf(trainer) = 1
    /\ Accuracy(trainer) = [correct |-> 1, total |-> 2]

\* ---- C32
\* The attempts counter of the running session.
Attempts(st) == st.practiceSession[1].attempts

\* The last thing that happened is that the computer played a token and the
\* session went on to the next one: no attempt has been made at the expected
\* move yet.
NewExpectedMove ==
    /\ event.op \in {"makeOpponentMove", "makeComputerMove"}
    /\ trainer.practiceSession # <<>>
    /\ ComputerCall(event.timer) # Null
    /\ ~Unresolved(ComputerCall(event.timer)[1],
                   parseAlgebraicNotation(ComputerCall(event.timer)[1],
                                          ComputerCall(event.timer)[2]))

\* Before the first wrong attempt at an expected move the count is 0 and no
\* hint is shown.
NoHintBeforeWrongAttempt ==
    (event.op = "startPractice" \/ NewExpectedMove) =>
        /\ Attempts(trainer) = 0
        /\ trainer.showHint = Null

\* The hint after the n-th wrong attempt in a row at a token that parses to
\* moveData on the displayed game (Null when it does not parse).
HintAfter(n, moveData) ==
    IF n = 1 THEN Null
    ELSE IF moveData = Null THEN trainer.showHint
    ELSE IF n = 2 THEN <<moveData[1], <<>>>>
    ELSE IF n = 4 THEN <<moveData[1], moveData[2]>>
    ELSE trainer.showHint

\* The user's move in practice, by the trial move's result `r`: a wrong legal
\* move is one more attempt and escalates the hint, the expected move resets
\* both.
HintStep(r) ==
    (r.ok /\ ExpectedToken(trainer) # Null) =>
        IF SameSan(r.game, ExpectedToken(trainer))
        THEN /\ Attempts(trainer') = 0
             /\ trainer'.showHint = Null
        ELSE /\ Attempts(trainer') = Attempts(trainer) + 1
             /\ trainer'.showHint =
                    HintAfter(Attempts(trainer) + 1,
                              parseAlgebraicNotation(trainer.game, ExpectedToken(trainer)))

\* C32: hint escalation.  For one expected move the origin-only hint is set on
\* the second wrong legal attempt in a row and the origin-and-destination hint
\* on the fourth (only when the expected token parses to a move); attempts
\* goes back to 0 and the hint is cleared as soon as the correct move is
\* played; and no hint is shown before a wrong attempt at the expected move.
C32_HintEscalation ==
    /\ [](NoHintBeforeWrongAttempt)
    /\ [][UserMoveInPractice =>
              HintStep(makeMove(trainer.game, event'.from, event'.to))]_vars

====
